---- MODULE Spec2Model ----
(***************************************************************************)
(* Client-side realtime voice session pipeline of pitext-travel:           *)
(*   - VoiceStateMachine            (voice_state_machine.js, two revisions)*)
(*   - WebSocketConnection / WebSocketClient (six revisions of connect())  *)
(*   - RealtimeController, AudioPlayer, AudioCapture, VADProcessor         *)
(* Every object is one record-valued variable; every method, event handler *)
(* and timer callback is one action that runs the whole handler.           *)
(***************************************************************************)
EXTENDS Integers, Sequences, FiniteSets, TLC

VARIABLES sm, ws, rc, ap, ac, vad

vars == <<sm, ws, rc, ap, ac, vad>>

\* the variables of the other components, for the actions of each one
otherThanSm == <<ws, rc, ap, ac, vad>>
otherThanWs == <<sm, rc, ap, ac, vad>>
otherThanRc == <<sm, ws, ap, ac, vad>>
otherThanAp == <<sm, ws, rc, ac, vad>>
otherThanAc == <<sm, ws, rc, ap, vad>>
otherThanVad == <<sm, ws, rc, ap, ac>>

(***************************************************************************)
(* Bounds of the model                                                     *)
(***************************************************************************)
\* operations on the state machine stop once the history holds this many entries
MaxTransitions == 4
\* at most this many callbacks (enter/exit handlers, onStateChange, onError) are set
MaxHandlers == 2
\* forceState is used at most this many times between two reset() calls
MaxForced == 1
\* connect() creates at most this many promises and at most this many sockets
MaxPromises == 2
MaxSockets == 3
\* connect_error events counted beyond maxReconnectAttempts
MaxExtraErrors == 0

(***************************************************************************)
(*                       V o i c e S t a t e M a c h i n e                 *)
(***************************************************************************)
States == {"WAITING", "LISTENING", "PROCESSING", "SPEAKING"}

\* the two revisions of voice_state_machine.js
SmRevisions == {"plain", "timeout"}

maxHistorySize == 50

\* JavaScript's undefined, and the value an object literal inherits under a
\* key of Object.prototype (transitions['constructor'] is the function Object)
Undefined == "undefined"
Inherited == "[function Object]"
ObjectPrototypeKeys == {"constructor"}

\* the events transition() is called with
Events == {"speechDetected", "speechEnded", "userInterrupt", "responseStarted",
           "processingFailed", "speechCompleted", "timeout", "unknownEvent",
           "constructor"}

transitionsPlain ==
    [WAITING    |-> [speechDetected |-> "LISTENING"],
     LISTENING  |-> [speechEnded |-> "PROCESSING", userInterrupt |-> "WAITING"],
     PROCESSING |-> [responseStarted |-> "SPEAKING", processingFailed |-> "WAITING"],
     SPEAKING   |-> [speechCompleted |-> "WAITING", userInterrupt |-> "LISTENING"]]

transitionsTimeout ==
    [WAITING    |-> [speechDetected |-> "LISTENING"],
     LISTENING  |-> [speechEnded |-> "PROCESSING", userInterrupt |-> "WAITING",
                     timeout |-> "PROCESSING"],
     PROCESSING |-> [responseStarted |-> "SPEAKING", processingFailed |-> "WAITING",
                     timeout |-> "WAITING"],
     SPEAKING   |-> [speechCompleted |-> "WAITING", userInterrupt |-> "LISTENING",
                     timeout |-> "WAITING"]]

\* mutant: barge-in (SPEAKING.userInterrupt) leads to WAITING instead of LISTENING
transitionsBargeInToWaiting(rev) ==
    [(IF rev = "plain" THEN transitionsPlain ELSE transitionsTimeout)
        EXCEPT !.SPEAKING.userInterrupt = "WAITING"]

transitions(rev) == IF rev = "plain" THEN transitionsPlain ELSE transitionsTimeout

\* states that have an entry in this.timeouts (timeout revision)
timeouts == {"PROCESSING", "SPEAKING", "LISTENING"}

\* obj[key] on an object literal: own property, else Object.prototype's, else undefined
PropertyGet(obj, key) ==
    IF key \in DOMAIN obj THEN obj[key]
    ELSE IF key \in ObjectPrototypeKeys THEN Inherited
    ELSE Undefined

\* this.transitions[fromState][event], undefined when either lookup finds nothing
TransitionLookup(m, event) ==
    IF m.currentState \notin DOMAIN transitions(m.rev) THEN Undefined
    ELSE PropertyGet(transitions(m.rev)[m.currentState], event)

\* `onExit${_capitalizeFirst(state.toLowerCase())}` and the same for onEnter
ExitHandlerName == [WAITING |-> "onExitWaiting", LISTENING |-> "onExitListening",
                    PROCESSING |-> "onExitProcessing", SPEAKING |-> "onExitSpeaking"]
EnterHandlerName == [WAITING |-> "onEnterWaiting", LISTENING |-> "onEnterListening",
                     PROCESSING |-> "onEnterProcessing", SPEAKING |-> "onEnterSpeaking"]

HandlerNames == {ExitHandlerName[s] : s \in States} \cup {EnterHandlerName[s] : s \in States}

NoTransition == <<>>

\* one entry of the record of what an operation did, in the order it did it;
\* cur and n are currentState and stateHistory.length at that moment
Call(k, h, tr, m) ==
    [k |-> k, h |-> h, tr |-> tr, cur |-> m.currentState, n |-> Len(m.stateHistory)]

Log(m, k, h, tr) == [m EXCEPT !.calls = Append(@, Call(k, h, tr, m))]

\* _addToHistory
AddToHistory(m, entry) ==
    LET pushed == Append(m.stateHistory, entry)
        over   == IF Len(pushed) > maxHistorySize THEN Len(pushed) - maxHistorySize ELSE 0
    IN  Log([m EXCEPT !.stateHistory = SubSeq(pushed, over + 1, Len(pushed))],
            "append", "", NoTransition)

\* _clearTimeout (timeout revision)
ClearTimeout(m) ==
    IF m.currentTimeout # "none" THEN [m EXCEPT !.currentTimeout = "none"] ELSE m

\* _setStateTimeout (timeout revision)
SetStateTimeout(m, state) ==
    IF state \in timeouts THEN [m EXCEPT !.currentTimeout = state] ELSE m

\* exitHandler / enterHandler call, when one is registered
CallHandler(m, k, name) ==
    IF m.stateHandlers[name] THEN Log(m, k, name, NoTransition) ELSE m

\* the onStateChange notification, when a subscriber is set
NotifyStateChange(m, from, to, event) ==
    IF m.onStateChange THEN Log(m, "notify", "onStateChange", <<from, to, event>>) ELSE m

\* the assignments previousState = fromState; currentState = toState
UpdateState(m, from, to) ==
    Log([m EXCEPT !.previousState = from, !.currentState = to], "update", "", NoTransition)

\* mutant: the state is written before the exit handler runs
ExecuteTransitionUpdateFirst(m, fromState, toState, event) ==
    LET m0 == IF m.rev = "timeout" THEN ClearTimeout(m) ELSE m
        m1 == UpdateState(m0, fromState, toState)
        m2 == CallHandler(m1, "exit", ExitHandlerName[fromState])
        m3 == AddToHistory(m2, [from |-> fromState, to |-> toState, event |-> event])
    IN  IF toState \notin States
        THEN [Log(m3, "throw", "TypeError", NoTransition) EXCEPT !.threw = TRUE]
        ELSE LET m4 == CallHandler(m3, "enter", EnterHandlerName[toState])
                 m5 == IF m.rev = "timeout" THEN SetStateTimeout(m4, toState) ELSE m4
             IN  NotifyStateChange(m5, fromState, toState, event)

\* _executeTransition; toState.toLowerCase() raises a TypeError when toState is
\* no string, after the state and the history have been written
ExecuteTransition(m, fromState, toState, event) ==
    LET m0 == IF m.rev = "timeout" THEN ClearTimeout(m) ELSE m
        m1 == CallHandler(m0, "exit", ExitHandlerName[fromState])
        m2 == UpdateState(m1, fromState, toState)
        m3 == AddToHistory(m2, [from |-> fromState, to |-> toState, event |-> event])
    IN  IF toState \notin States
        THEN [Log(m3, "throw", "TypeError", NoTransition) EXCEPT !.threw = TRUE]
        ELSE LET m4 == CallHandler(m3, "enter", EnterHandlerName[toState])
                 m5 == IF m.rev = "timeout" THEN SetStateTimeout(m4, toState) ELSE m4
             IN  NotifyStateChange(m5, fromState, toState, event)

\* transition(event): the record after the call; ret is its return value
Transition(m, event) ==
    LET toState == TransitionLookup(m, event)
    IN  IF toState = Undefined
        THEN [m EXCEPT !.ret = FALSE]
        ELSE LET done == ExecuteTransition(m, m.currentState, toState, event)
             IN  IF done.threw THEN done ELSE [done EXCEPT !.ret = TRUE]

\* start of a public call: a fresh record of calls
Begin(m, op, arg) ==
    [m EXCEPT !.calls = <<>>, !.threw = FALSE, !.ret = FALSE,
              !.lastOp = [op |-> op, arg |-> arg, from |-> m.currentState]]

SmInit(rev) ==
    [rev |-> rev,
     currentState |-> "WAITING",
     previousState |-> "null",
     stateHandlers |-> [h \in HandlerNames |-> FALSE],
     onStateChange |-> FALSE,
     onError |-> FALSE,
     currentTimeout |-> "none",
     stateHistory |-> <<>>,
     calls |-> <<>>,
     threw |-> FALSE,
     ret |-> FALSE,
     lastOp |-> [op |-> "new", arg |-> "", from |-> "WAITING"]]

Room == Len(sm.stateHistory) < MaxTransitions

\* transition(event) called directly
TransitionCall(event) ==
    /\ Room
    /\ sm' = Transition(Begin(sm, "transition", event), event)
    /\ UNCHANGED otherThanSm

onSpeechDetectedBody(m) ==
    IF m.currentState = "WAITING" THEN Transition(m, "speechDetected")
    ELSE IF m.currentState = "SPEAKING" THEN Transition(m, "userInterrupt")
    ELSE m

onSpeechDetected ==
    /\ Room
    /\ sm' = onSpeechDetectedBody(Begin(sm, "onSpeechDetected", ""))
    /\ UNCHANGED otherThanSm

onSpeechEndedBody(m) ==
    IF m.currentState = "LISTENING" THEN Transition(m, "speechEnded") ELSE m

onSpeechEnded ==
    /\ Room
    /\ sm' = onSpeechEndedBody(Begin(sm, "onSpeechEnded", ""))
    /\ UNCHANGED otherThanSm

onResponseStartedBody(m) ==
    IF m.currentState = "PROCESSING" THEN Transition(m, "responseStarted") ELSE m

onResponseStarted ==
    /\ Room
    /\ sm' = onResponseStartedBody(Begin(sm, "onResponseStarted", ""))
    /\ UNCHANGED otherThanSm

onSpeechCompletedBody(m) ==
    IF m.currentState = "SPEAKING" THEN Transition(m, "speechCompleted") ELSE m

onSpeechCompleted ==
    /\ Room
    /\ sm' = onSpeechCompletedBody(Begin(sm, "onSpeechCompleted", ""))
    /\ UNCHANGED otherThanSm

onProcessingErrorBody(m) ==
    LET m1 == IF m.currentState = "PROCESSING" THEN Transition(m, "processingFailed") ELSE m
    IN  IF m1.onError THEN Log(m1, "onError", "onError", NoTransition) ELSE m1

onProcessingError ==
    /\ Room
    /\ sm' = onProcessingErrorBody(Begin(sm, "onProcessingError", ""))
    /\ UNCHANGED otherThanSm

\* forceState(state)
forceStateBody(m, state) ==
    IF state \notin States THEN m
    ELSE LET m0 == IF m.rev = "timeout" THEN ClearTimeout(m) ELSE m
             m1 == UpdateState(m0, m0.currentState, state)
             m2 == AddToHistory(m1, [from |-> m1.previousState, to |-> state,
                                     event |-> "forced"])
         IN  NotifyStateChange(m2, m2.previousState, state, "forced")

Forced(m) == Len(SelectSeq(m.stateHistory, LAMBDA e : e.event = "forced"))

forceState(state) ==
    /\ Room
    /\ Forced(sm) < MaxForced
    /\ sm' = forceStateBody(Begin(sm, "forceState", state), state)
    /\ UNCHANGED otherThanSm

\* reset()
resetBody(m) ==
    LET m0 == IF m.rev = "timeout" THEN ClearTimeout(m) ELSE m
    IN  [m0 EXCEPT !.currentState = "WAITING", !.previousState = "null",
                   !.stateHistory = <<>>]

reset ==
    /\ sm.stateHistory # <<>>
    /\ sm' = resetBody(Begin(sm, "reset", ""))
    /\ UNCHANGED otherThanSm

\* on(handlerName, callback)
onBody(m, handlerName) ==
    IF handlerName \in DOMAIN m.stateHandlers
    THEN [m EXCEPT !.stateHandlers[handlerName] = TRUE]
    ELSE m

\* the callbacks that are set
Registered(m) ==
    {h \in HandlerNames : m.stateHandlers[h]}
        \cup (IF m.onStateChange THEN {"onStateChange"} ELSE {})
        \cup (IF m.onError THEN {"onError"} ELSE {})

CanRegister == Cardinality(Registered(sm)) < MaxHandlers

on(handlerName) ==
    /\ CanRegister
    /\ handlerName \in HandlerNames => ~sm.stateHandlers[handlerName]
    /\ sm' = onBody(Begin(sm, "on", handlerName), handlerName)
    /\ UNCHANGED otherThanSm

\* stateMachine.onStateChange = ...  /  stateMachine.onError = ...
SetOnStateChange ==
    /\ CanRegister
    /\ ~sm.onStateChange
    /\ sm' = [Begin(sm, "setOnStateChange", "") EXCEPT !.onStateChange = TRUE]
    /\ UNCHANGED otherThanSm

SetOnError ==
    /\ CanRegister
    /\ ~sm.onError
    /\ sm' = [Begin(sm, "setOnError", "") EXCEPT !.onError = TRUE]
    /\ UNCHANGED otherThanSm

\* the setTimeout callback of _setStateTimeout fires (timeout revision)
StateTimeoutFires ==
    /\ Room
    /\ sm.rev = "timeout"
    /\ sm.currentTimeout # "none"
    /\ sm' = Transition(Begin(sm, "stateTimeout", sm.currentTimeout), "timeout")
    /\ UNCHANGED otherThanSm

WsIdle == [rev |-> "none"]
RcIdle == [rev |-> "none"]
ApIdle == [rev |-> "none"]
AcIdle == [rev |-> "none"]
VadIdle == [rev |-> "none"]

Init ==
    /\ \E rev \in SmRevisions : sm = SmInit(rev)
    /\ ws = WsIdle
    /\ rc = RcIdle
    /\ ap = ApIdle
    /\ ac = AcIdle
    /\ vad = VadIdle

TriggerMethods ==
    \/ onSpeechDetected
    \/ onSpeechEnded
    \/ onResponseStarted
    \/ onSpeechCompleted
    \/ onProcessingError

Registration ==
    \/ \E h \in HandlerNames \cup {"onUnknown"} : on(h)
    \/ SetOnStateChange
    \/ SetOnError

Next ==
    \/ \E e \in Events : TransitionCall(e)
    \/ TriggerMethods
    \/ \E s \in States \cup {"PAUSED"} : forceState(s)
    \/ reset
    \/ Registration
    \/ StateTimeoutFires

Spec == Init /\ [][Next]_vars

\* transition(), the trigger methods and the state timeouts, without forceState/reset
NextTransitions ==
    \/ \E e \in Events : TransitionCall(e)
    \/ TriggerMethods
    \/ Registration
    \/ StateTimeoutFires

SpecTransitions == Init /\ [][NextTransitions]_vars

\* the state machine driven through its trigger methods alone
NextTriggers ==
    \/ TriggerMethods
    \/ Registration

SpecTriggers == Init /\ [][NextTriggers]_vars

(***************************************************************************)
(* Properties of the VoiceStateMachine                                      *)
(***************************************************************************)
TriggerOps == {"onSpeechDetected", "onSpeechEnded", "onResponseStarted",
               "onSpeechCompleted", "onProcessingError"}

\* the event is no key of the transition table's entry for the state
NotInTable(m, event) ==
    \/ m.currentState \notin DOMAIN transitions(m.rev)
    \/ event \notin DOMAIN transitions(m.rev)[m.currentState]

\* the states in which a trigger method calls transition()
TriggerStates ==
    [onSpeechDetected |-> {"WAITING", "SPEAKING"}, onSpeechEnded |-> {"LISTENING"},
     onResponseStarted |-> {"PROCESSING"}, onSpeechCompleted |-> {"SPEAKING"},
     onProcessingError |-> {"PROCESSING"}]

\* the call op(arg) made in m is transition() with a pair outside the table, or a
\* trigger method in a state where it does not apply
InvalidCall(m, op, arg) ==
    \/ op = "transition" /\ NotInTable(m, arg)
    \/ op \in TriggerOps /\ m.currentState \notin TriggerStates[op]

HandlerCalls(calls) == SelectSeq(calls, LAMBDA c : c.k \in {"exit", "enter", "notify"})

RejectedCleanly ==
    /\ sm'.currentState = sm.currentState
    /\ sm'.previousState = sm.previousState
    /\ sm'.stateHistory = sm.stateHistory
    /\ HandlerCalls(sm'.calls) = <<>>

\* C1: a transition(event) whose (state, event) pair is not in the transition
\* table, and a trigger method called in a state where it does not apply, leave
\* currentState, previousState and stateHistory unchanged and call no exit
\* handler, no enter handler and no onStateChange.
C1_InvalidPairIsNoOp ==
    [][InvalidCall(sm, sm'.lastOp.op, sm'.lastOp.arg) => RejectedCleanly]_vars

\* the same for every event that is no key inherited from Object.prototype
InvalidOwnPairIsNoOp ==
    [][(InvalidCall(sm, sm'.lastOp.op, sm'.lastOp.arg)
            /\ sm'.lastOp.arg \notin ObjectPrototypeKeys) => RejectedCleanly]_vars

TransitionOps == {"transition", "stateTimeout"} \cup TriggerOps

\* the steps of a transition, without the timer bookkeeping and onError
TransitionSteps(calls) ==
    SelectSeq(calls, LAMBDA c : c.k \in {"exit", "update", "append", "enter", "notify"})

Step(k, h, tr, cur, n) == [k |-> k, h |-> h, tr |-> tr, cur |-> cur, n |-> n]

\* what the last history entry e, appended as entry number n, must have done
OrderedSteps(m, e, n) ==
    (IF m.stateHandlers[ExitHandlerName[e.from]]
       THEN <<Step("exit", ExitHandlerName[e.from], NoTransition, e.from, n - 1)>>
       ELSE <<>>)
    \o <<Step("update", "", NoTransition, e.to, n - 1),
         Step("append", "", NoTransition, e.to, n)>>
    \o (IF m.stateHandlers[EnterHandlerName[e.to]]
          THEN <<Step("enter", EnterHandlerName[e.to], NoTransition, e.to, n)>>
          ELSE <<>>)
    \o (IF m.onStateChange
          THEN <<Step("notify", "onStateChange", <<e.from, e.to, e.event>>, e.to, n)>>
          ELSE <<>>)

Succeeded(m) == m.lastOp.op \in TransitionOps /\ m.ret

\* C2: a successful transition runs the exit handler of the old state (if
\* registered) while currentState is still the old state, then writes
\* currentState/previousState, then appends to stateHistory, then runs the
\* enter handler of the new state (if registered) with currentState already the
\* new state, then notifies onStateChange (if set) exactly once with
\* {from, to, event}.
C2_TransitionOrder ==
    Succeeded(sm) =>
        LET n == Len(sm.stateHistory)
            e == sm.stateHistory[n]
        IN  /\ e.from = sm.lastOp.from
            /\ e.to = sm.currentState
            /\ sm.previousState = e.from
            /\ TransitionSteps(sm.calls) = OrderedSteps(sm, e, n)

\* a transition with an exit handler, an enter handler: both ran, around the update
C2_Witness ==
    /\ Succeeded(sm)
    /\ Len(HandlerCalls(sm.calls)) = 2
    /\ HandlerCalls(sm.calls)[1].k = "exit"
    /\ HandlerCalls(sm.calls)[2].k = "enter"

\* the state changes the trigger methods may make
TriggerMoves ==
    {<<"onSpeechDetected", "WAITING", "LISTENING">>,
     <<"onSpeechDetected", "SPEAKING", "LISTENING">>,
     <<"onSpeechEnded", "LISTENING", "PROCESSING">>,
     <<"onResponseStarted", "PROCESSING", "SPEAKING">>,
     <<"onSpeechCompleted", "SPEAKING", "WAITING">>,
     <<"onProcessingError", "PROCESSING", "WAITING">>}

\* C3: the machine starts in WAITING, currentState is always one of the four
\* states, and a trigger method changes the state only along onSpeechDetected
\* WAITING->LISTENING and SPEAKING->LISTENING, onSpeechEnded
\* LISTENING->PROCESSING, onResponseStarted PROCESSING->SPEAKING,
\* onSpeechCompleted SPEAKING->WAITING, onProcessingError PROCESSING->WAITING.
C3_TriggerMoves ==
    /\ sm.currentState = "WAITING"
    /\ [](sm.currentState \in States)
    /\ [][sm'.currentState # sm.currentState =>
            <<sm'.lastOp.op, sm.currentState, sm'.currentState>> \in TriggerMoves]_vars

\* barge-in happened: onSpeechDetected moved SPEAKING to LISTENING
C3_Witness ==
    /\ sm.lastOp = [op |-> "onSpeechDetected", arg |-> "", from |-> "SPEAKING"]
    /\ sm.currentState = "LISTENING"

\* C4: forceState(s) with a valid s runs the exit handler of the state it
\* leaves and the enter handler of s (when registered), before onStateChange.
C4_ForceStateRunsHandlers ==
    (sm.lastOp.op = "forceState" /\ sm.lastOp.arg \in States) =>
        /\ (sm.lastOp.from \in States /\ sm.stateHandlers[ExitHandlerName[sm.lastOp.from]]) =>
              \E i \in 1..Len(sm.calls) : sm.calls[i].k = "exit"
        /\ sm.stateHandlers[EnterHandlerName[sm.lastOp.arg]] =>
              \E i \in 1..Len(sm.calls) : sm.calls[i].k = "enter"

\* what forceState does do: state, history and notification, and no handler
ForceStateSkipsHandlers ==
    (sm.lastOp.op = "forceState" /\ sm.lastOp.arg \in States) =>
        /\ sm.currentState = sm.lastOp.arg
        /\ sm.previousState = sm.lastOp.from
        /\ \A i \in 1..Len(sm.calls) : sm.calls[i].k \notin {"exit", "enter"}

(***************************************************************************)
(*              W e b S o c k e t C o n n e c t i o n                      *)
(* Six revisions of connect():                                             *)
(*   fallback   part_011:251-515   progressive transport fallback          *)
(*   single     part_010           one direct WebSocket attempt            *)
(*   namespace  part_011:8-240     auto-reconnect, default-namespace       *)
(*                                 fallback                                *)
(*   promise    part_012           auto-reconnect, connectionPromise       *)
(*   polling    websocket_connection.js   auto-reconnect, `connecting`     *)
(*                                 polled by later callers                 *)
(*   client     websocket_client.js       WebSocketClient.connect          *)
(* A socket is what io() returned; Socket.IO fires its 'connect',          *)
(* 'connect_error' and 'disconnect' events, and socket.disconnect() on an  *)
(* open socket fires 'disconnect' before it returns.                       *)
(***************************************************************************)
WsRevisions == {"fallback", "single", "namespace", "promise", "polling", "client"}

\* revisions that keep this.connectionPromise
PromiseRevisions == {"fallback", "single", "namespace", "promise"}

\* revisions whose sockets are created with reconnection: true
AutoReconnectRevisions == {"namespace", "promise", "polling", "client"}

maxReconnectAttempts(rev) == IF rev = "fallback" THEN 3 ELSE 5

\* the transports the first attempt of a new instance uses
WsFirstTransports(rev) ==
    CASE rev \in {"fallback", "single", "namespace"} -> "websocket"
      [] OTHER -> "websocket+polling"

NoEmit == [hadSocket |-> FALSE, wasConnected |-> FALSE, ret |-> "none", handed |-> FALSE]

WsInit(rev, io) ==
    [rev |-> rev,
     io |-> io,
     socket |-> 0,
     connected |-> FALSE,
     connecting |-> FALSE,
     connectionPromise |-> 0,
     reconnectAttempts |-> 0,
     namespace |-> "/travel/ws",
     sockets |-> <<>>,
     promises |-> <<>>,
     retryTimers |-> <<>>,
     pollTimers |-> {},
     registry |-> 1,          \* window.WebSocketConnections[namespace], an object id
     instances |-> 1,         \* WebSocketConnection objects in use
     clients |-> <<1>>,       \* the connection object of every WebSocketClient
     lastOp |-> "new",
     lastRet |-> 0,
     lastIo |-> TRUE,
     lastPending |-> {},
     lastCreated |-> FALSE,
     lastEmit |-> NoEmit]

SocketIds(w) == 1..Len(w.sockets)
PromiseIds(w) == 1..Len(w.promises)

Pending(w, p) == w.promises[p].state = "pending"

\* resolve() / reject(new Error(...)) of promise p: the first settlement stands
Resolve(w, p) ==
    IF Pending(w, p) THEN [w EXCEPT !.promises[p].state = "resolved"] ELSE w

Reject(w, p, error) ==
    IF Pending(w, p)
    THEN [w EXCEPT !.promises[p].state = "rejected", !.promises[p].error = error]
    ELSE w

\* new Promise(...): the promise the executor settles
NewPromise(w) ==
    [w EXCEPT !.promises = Append(@, [state |-> "pending", error |-> "", torn |-> FALSE,
                                       waits |-> 0])]

\* this.socket = io(namespace, options) together with the setTimeout that
\* precedes it: socket s resolves/rejects promise p from its handlers
NewSocket(w, p, transports, reconnection, role, timer) ==
    [w EXCEPT !.sockets = Append(@, [status |-> "connecting", prom |-> p,
                                      transports |-> transports,
                                      reconnection |-> reconnection,
                                      role |-> role, timer |-> timer]),
              !.socket = Len(w.sockets) + 1,
              !.lastCreated = TRUE]

\* clearTimeout(timeoutId) in the handlers of socket s
ClearConnectionTimeout(w, s) == [w EXCEPT !.sockets[s].timer = "off"]

\* the 'disconnect' handler the revision registers on its sockets
OnDisconnect(w, s) ==
    IF w.rev = "polling" \/ w.sockets[s].role = "fallback" THEN w
    ELSE IF w.rev = "client" THEN [w EXCEPT !.connected = FALSE]
    ELSE IF w.rev = "single"
    THEN [w EXCEPT !.connected = FALSE, !.connecting = FALSE, !.connectionPromise = 0]
    ELSE [w EXCEPT !.connected = FALSE, !.connecting = FALSE]

\* socket.disconnect() on socket s (0 is null: the callers test this.socket first)
SocketDisconnect(w, s) ==
    IF s = 0 THEN w
    ELSE IF w.sockets[s].status = "open"
    THEN OnDisconnect([w EXCEPT !.sockets[s].status = "closed"], s)
    ELSE [w EXCEPT !.sockets[s].status = "closed"]

\* this.connected && this.socket && this.socket.connected
AlreadyConnected(w) ==
    w.connected /\ w.socket # 0 /\ w.sockets[w.socket].status = "open"

(***************************** fallback revision ***************************)
\* mutant: the first retry already drops to polling only
GetTransportStrategySkipsUpgrade(reconnectAttempts) ==
    IF reconnectAttempts = 0 THEN "websocket" ELSE "polling"

\* _getTransportStrategy
GetTransportStrategy(reconnectAttempts) ==
    IF reconnectAttempts = 0 THEN "websocket"
    ELSE IF reconnectAttempts = 1 THEN "polling+websocket"
    ELSE "polling"

\* _attemptConnection(resolve, reject) for promise p
FallbackAttemptConnection(w, p) ==
    NewSocket([w EXCEPT !.connecting = TRUE], p,
              GetTransportStrategy(w.reconnectAttempts), FALSE, "primary", "armed")

\* _handleConnectionFailure(resolve, reject, errorMessage) for promise p
FallbackHandleConnectionFailure(w, p) ==
    LET w1 == [w EXCEPT !.reconnectAttempts = @ + 1]
    IN  IF w1.reconnectAttempts < maxReconnectAttempts(w.rev)
        THEN LET w2 == [SocketDisconnect(w1, w1.socket) EXCEPT !.socket = 0]
             IN  [w2 EXCEPT !.retryTimers =
                            Append(@, [prom |-> p, armedAfter |-> Len(w.sockets)])]
        ELSE Reject([w1 EXCEPT !.connectionPromise = 0], p, "Connection failed after attempts")

\* the connection-timeout callback set up with socket s
FallbackOnTimeout(w, s) ==
    LET w1 == [w EXCEPT !.connecting = FALSE, !.connectionPromise = 0]
        w2 == SocketDisconnect(w1, w1.socket)
    IN  FallbackHandleConnectionFailure(w2, w.sockets[s].prom)

FallbackOnConnect(w, s) ==
    Resolve([ClearConnectionTimeout(w, s) EXCEPT !.connected = TRUE, !.connecting = FALSE,
                                                 !.reconnectAttempts = 0],
            w.sockets[s].prom)

FallbackOnConnectError(w, s) ==
    FallbackHandleConnectionFailure(
        [ClearConnectionTimeout(w, s) EXCEPT !.connected = FALSE, !.connecting = FALSE],
        w.sockets[s].prom)

(****************************** single revision ****************************)
\* _attemptConnection(resolve, reject) for promise p
SingleAttemptConnection(w, p) ==
    LET w1 == SocketDisconnect([w EXCEPT !.connecting = TRUE], w.socket)
    IN  NewSocket(w1, p, "websocket", FALSE, "primary", "armed")

SingleOnTimeout(w, s) ==
    LET w1 == [w EXCEPT !.connecting = FALSE, !.connectionPromise = 0]
    IN  Reject(SocketDisconnect(w1, w1.socket), w.sockets[s].prom, "Connection timeout")

SingleOnConnect(w, s) ==
    Resolve([ClearConnectionTimeout(w, s) EXCEPT !.connected = TRUE, !.connecting = FALSE,
                                                 !.connectionPromise = 0],
            w.sockets[s].prom)

SingleOnConnectError(w, s) ==
    Reject([ClearConnectionTimeout(w, s) EXCEPT !.connected = FALSE, !.connecting = FALSE,
                                                !.connectionPromise = 0],
           w.sockets[s].prom, "Connection failed")

(********************* namespace and promise revisions *********************)
\* the try block of the executor: one auto-reconnecting socket
AutoAttempt(w, p) ==
    NewSocket([w EXCEPT !.connecting = TRUE], p,
              IF w.rev = "namespace" THEN "websocket" ELSE "websocket+polling",
              TRUE, "primary", "armed")

AutoOnTimeout(w, s) ==
    LET w1 == [w EXCEPT !.connecting = FALSE, !.connectionPromise = 0]
    IN  Reject(SocketDisconnect(w1, w1.socket), w.sockets[s].prom, "Connection timeout")

AutoOnConnect(w, s) ==
    Resolve([ClearConnectionTimeout(w, s) EXCEPT !.connected = TRUE, !.connecting = FALSE,
                                                 !.reconnectAttempts = 0],
            w.sockets[s].prom)

\* 'connect_error' of the promise revision
PromiseOnConnectError(w, s) ==
    LET w1 == [ClearConnectionTimeout(w, s) EXCEPT !.connected = FALSE, !.connecting = FALSE,
                                                   !.connectionPromise = 0,
                                                   !.reconnectAttempts = @ + 1]
    IN  IF w1.reconnectAttempts >= maxReconnectAttempts(w.rev)
        THEN Reject(w1, w.sockets[s].prom, "Failed to connect after attempts")
        ELSE w1

\* 'connect_error' of the namespace revision: after maxReconnectAttempts errors
\* a second socket is opened on the default namespace
NamespaceOnConnectError(w, s) ==
    LET p  == w.sockets[s].prom
        w1 == [ClearConnectionTimeout(w, s) EXCEPT !.connected = FALSE, !.connecting = FALSE,
                                                   !.connectionPromise = 0,
                                                   !.reconnectAttempts = @ + 1]
    IN  IF w1.reconnectAttempts >= maxReconnectAttempts(w.rev)
        THEN IF w1.namespace # "/"
             THEN NewSocket([w1 EXCEPT !.namespace = "/"], p, "polling+websocket",
                            TRUE, "fallback", "off")
             ELSE Reject(w1, p, "Failed to connect after attempts")
        ELSE w1

\* handlers of the default-namespace socket
NamespaceFallbackOnConnect(w, s) ==
    Resolve([w EXCEPT !.connected = TRUE, !.connecting = FALSE], w.sockets[s].prom)

NamespaceFallbackOnConnectError(w, s) ==
    Reject(w, w.sockets[s].prom, "Failed to connect after attempts")

(************************ polling and client revisions *********************)
PollingAttempt(w, p) ==
    NewSocket([w EXCEPT !.connecting = TRUE], p, "websocket+polling", TRUE, "primary", "armed")

ClientAttempt(w, p) ==
    NewSocket(w, p, "websocket+polling", TRUE, "primary", "armed")

PollingOnTimeout(w, s) ==
    Reject([w EXCEPT !.connecting = FALSE], w.sockets[s].prom, "Connection timeout")

ClientOnTimeout(w, s) == Reject(w, w.sockets[s].prom, "Connection timeout")

PollingOnConnect(w, s) ==
    Resolve([ClearConnectionTimeout(w, s) EXCEPT !.connected = TRUE, !.connecting = FALSE,
                                                 !.reconnectAttempts = 0],
            w.sockets[s].prom)

ClientOnConnect(w, s) ==
    Resolve([ClearConnectionTimeout(w, s) EXCEPT !.connected = TRUE, !.reconnectAttempts = 0],
            w.sockets[s].prom)

PollingOnConnectError(w, s) ==
    LET w1 == [ClearConnectionTimeout(w, s) EXCEPT !.connected = FALSE, !.connecting = FALSE,
                                                   !.reconnectAttempts = @ + 1]
    IN  IF w1.reconnectAttempts >= maxReconnectAttempts(w.rev)
        THEN Reject(w1, w.sockets[s].prom, "Failed to connect after attempts")
        ELSE w1

ClientOnConnectError(w, s) ==
    LET w1 == [ClearConnectionTimeout(w, s) EXCEPT !.connected = FALSE,
                                                   !.reconnectAttempts = @ + 1]
    IN  IF w1.reconnectAttempts >= maxReconnectAttempts(w.rev)
        THEN Reject(w1, w.sockets[s].prom, "Failed to connect after attempts")
        ELSE w1

\* checkConnection() of a caller that found `connecting` set (polling revision):
\* settles promise p or polls again in 100 ms
CheckConnection(w, p) ==
    IF w.connected THEN Resolve([w EXCEPT !.pollTimers = @ \ {p}], p)
    ELSE IF ~w.connecting
    THEN Reject([w EXCEPT !.pollTimers = @ \ {p}], p, "Connection attempt failed")
    ELSE [w EXCEPT !.pollTimers = @ \cup {p}]

(******************************* connect() **********************************)
\* the promise executors, run on the fresh promise p
FallbackExecutor(w, p) ==
    IF AlreadyConnected(w) THEN Resolve(w, p)
    ELSE IF ~w.io
    THEN Reject([w EXCEPT !.connectionPromise = 0], p, "Socket.IO client library not loaded")
    ELSE FallbackAttemptConnection(w, p)

SingleExecutor(w, p) ==
    IF AlreadyConnected(w) THEN Resolve(w, p)
    ELSE IF ~w.io
    THEN Reject([w EXCEPT !.connectionPromise = 0], p, "Socket.IO client library not loaded")
    ELSE SingleAttemptConnection(w, p)

AutoExecutor(w, p) ==
    IF AlreadyConnected(w) THEN Resolve(w, p)
    ELSE IF ~w.io
    THEN Reject([w EXCEPT !.connectionPromise = 0], p, "Socket.IO client library not loaded")
    ELSE AutoAttempt(w, p)

\* the attempt that set `connecting`: the promise of the socket made last
InFlight(w) == w.sockets[Len(w.sockets)].prom

PollingExecutor(w, p) ==
    IF AlreadyConnected(w) THEN Resolve(w, p)
    ELSE IF w.connecting THEN CheckConnection([w EXCEPT !.promises[p].waits = InFlight(w)], p)
    ELSE IF ~w.io THEN Reject(w, p, "Socket.IO client library not loaded")
    ELSE PollingAttempt(w, p)

ClientExecutor(w, p) ==
    IF ~w.io THEN Reject(w, p, "Socket.IO client library not loaded")
    ELSE ClientAttempt(w, p)

Executor(w, p) ==
    CASE w.rev = "fallback" -> FallbackExecutor(w, p)
      [] w.rev = "single" -> SingleExecutor(w, p)
      [] w.rev \in {"namespace", "promise"} -> AutoExecutor(w, p)
      [] w.rev = "polling" -> PollingExecutor(w, p)
      [] w.rev = "client" -> ClientExecutor(w, p)

\* connect() of the connectionPromise revisions:
\*   if (this.connectionPromise) return this.connectionPromise;
\*   this.connectionPromise = new Promise(executor); return this.connectionPromise;
\* the executor runs inside `new Promise`, before the assignment
PromiseConnect(w) ==
    IF w.connectionPromise # 0 THEN [w EXCEPT !.lastRet = w.connectionPromise]
    ELSE LET p == Len(w.promises) + 1
         IN  [Executor(NewPromise(w), p) EXCEPT !.connectionPromise = p, !.lastRet = p]

\* connect() of the polling and client revisions: return new Promise(executor)
PlainConnect(w) ==
    LET p == Len(w.promises) + 1
    IN  [Executor(NewPromise(w), p) EXCEPT !.lastRet = p]

ConnectBody(w) ==
    IF w.rev \in PromiseRevisions THEN PromiseConnect(w) ELSE PlainConnect(w)

\* start of a call or callback: what the properties need to know about it
WsBegin(w, op) ==
    [w EXCEPT !.lastOp = op, !.lastRet = 0, !.lastIo = (op = "connect") => w.io, !.lastCreated = FALSE,
              !.lastEmit = NoEmit,
              !.lastPending = IF op = "connect"
                              THEN {p \in PromiseIds(w) : Pending(w, p) /\ ~w.promises[p].torn}
                              ELSE {}]

WsRoom(w) == Len(w.promises) < MaxPromises /\ Len(w.sockets) < MaxSockets

Connect ==
    /\ (ws.rev \in PromiseRevisions /\ ws.connectionPromise # 0) \/ WsRoom(ws)
    /\ ws' = ConnectBody(WsBegin(ws, "connect"))
    /\ UNCHANGED otherThanWs

(****************************** disconnect() *******************************)
DisconnectBody(w) ==
    IF w.rev \in PromiseRevisions
    THEN [SocketDisconnect(w, w.socket) EXCEPT !.socket = 0, !.connected = FALSE,
                                               !.connecting = FALSE,
                                               !.connectionPromise = 0]
    ELSE IF w.socket # 0
    THEN [SocketDisconnect(w, w.socket) EXCEPT !.socket = 0, !.connected = FALSE]
    ELSE w

\* disconnect(); the promises it leaves pending are marked as torn down
Disconnect ==
    /\ ws.socket # 0 \/ ws.connectionPromise # 0
    /\ LET w == DisconnectBody(WsBegin(ws, "disconnect"))
       IN  ws' = [w EXCEPT !.promises =
                     [p \in PromiseIds(w) |->
                         IF Pending(w, p) THEN [w.promises[p] EXCEPT !.torn = TRUE]
                         ELSE w.promises[p]]]
    /\ UNCHANGED otherThanWs

(********************************* emit() **********************************)
\* mutant: the guard tests the socket only
EmitBodyIgnoresConnected(w, throws) ==
    LET pre == [hadSocket |-> w.socket # 0, wasConnected |-> w.connected]
    IN  IF w.socket = 0
        THEN [w EXCEPT !.lastEmit = pre @@ [ret |-> "false", handed |-> FALSE]]
        ELSE IF throws
        THEN [w EXCEPT !.lastEmit = pre @@ [ret |-> IF w.rev = "single" THEN "throw" ELSE "false",
                                            handed |-> FALSE]]
        ELSE [w EXCEPT !.lastEmit = pre @@ [ret |-> "true", handed |-> TRUE]]

\* emit(event, data); throws: socket.emit raises.  The single revision calls
\* socket.emit outside any try block, the others catch and return false.
EmitBody(w, throws) ==
    LET pre == [hadSocket |-> w.socket # 0, wasConnected |-> w.connected]
    IN  IF w.socket = 0 \/ ~w.connected
        THEN [w EXCEPT !.lastEmit = pre @@ [ret |-> "false", handed |-> FALSE]]
        ELSE IF throws
        THEN [w EXCEPT !.lastEmit = pre @@ [ret |-> IF w.rev = "single" THEN "throw" ELSE "false",
                                            handed |-> FALSE]]
        ELSE [w EXCEPT !.lastEmit = pre @@ [ret |-> "true", handed |-> TRUE]]

Emit(throws) ==
    /\ ws' = EmitBody(WsBegin(ws, "emit"), throws)
    /\ UNCHANGED otherThanWs

(***************************** socket events *******************************)
OnConnect(w, s) ==
    CASE w.rev = "fallback" -> FallbackOnConnect(w, s)
      [] w.rev = "single" -> SingleOnConnect(w, s)
      [] w.rev = "namespace" /\ w.sockets[s].role = "fallback" -> NamespaceFallbackOnConnect(w, s)
      [] w.rev = "namespace" /\ w.sockets[s].role # "fallback" -> AutoOnConnect(w, s)
      [] w.rev = "promise" -> AutoOnConnect(w, s)
      [] w.rev = "polling" -> PollingOnConnect(w, s)
      [] w.rev = "client" -> ClientOnConnect(w, s)

OnConnectError(w, s) ==
    CASE w.rev = "fallback" -> FallbackOnConnectError(w, s)
      [] w.rev = "single" -> SingleOnConnectError(w, s)
      [] w.rev = "namespace" /\ w.sockets[s].role = "fallback" ->
             NamespaceFallbackOnConnectError(w, s)
      [] w.rev = "namespace" /\ w.sockets[s].role # "fallback" -> NamespaceOnConnectError(w, s)
      [] w.rev = "promise" -> PromiseOnConnectError(w, s)
      [] w.rev = "polling" -> PollingOnConnectError(w, s)
      [] w.rev = "client" -> ClientOnConnectError(w, s)

OnTimeout(w, s) ==
    CASE w.rev = "fallback" -> FallbackOnTimeout(w, s)
      [] w.rev = "single" -> SingleOnTimeout(w, s)
      [] w.rev \in {"namespace", "promise"} -> AutoOnTimeout(w, s)
      [] w.rev = "polling" -> PollingOnTimeout(w, s)
      [] w.rev = "client" -> ClientOnTimeout(w, s)

\* Socket.IO fires 'connect' on socket s
SocketConnects(s) ==
    /\ ws.sockets[s].status = "connecting"
    /\ ws' = OnConnect([WsBegin(ws, "other") EXCEPT !.sockets[s].status = "open"], s)
    /\ UNCHANGED otherThanWs

\* Socket.IO fires 'connect_error' on socket s; a socket created with
\* reconnection: true goes on trying, one created without is closed
SocketConnectError(s) ==
    /\ ws.sockets[s].status = "connecting"
    /\ ws.reconnectAttempts < maxReconnectAttempts(ws.rev) + MaxExtraErrors
    /\ LET status == IF ws.sockets[s].reconnection THEN "connecting" ELSE "closed"
       IN  ws' = OnConnectError([WsBegin(ws, "other") EXCEPT !.sockets[s].status = status], s)
    /\ UNCHANGED otherThanWs

\* the server or the network drops the open socket s
SocketDrops(s) ==
    /\ ws.sockets[s].status = "open"
    /\ LET status == IF ws.sockets[s].reconnection THEN "connecting" ELSE "closed"
       IN  ws' = OnDisconnect([WsBegin(ws, "other") EXCEPT !.sockets[s].status = status], s)
    /\ UNCHANGED otherThanWs

(********************************* timers **********************************)
\* the connection timeout armed with socket s fires; timeouts of equal delay
\* fire in the order they were armed, and after every retry timer armed
\* before them
ConnectionTimeoutFires(s) ==
    /\ ws.sockets[s].timer = "armed"
    /\ \A t \in 1..(s - 1) : ws.sockets[t].timer # "armed"
    /\ \A i \in 1..Len(ws.retryTimers) : ws.retryTimers[i].armedAfter >= s
    /\ ws' = OnTimeout([WsBegin(ws, "other") EXCEPT !.sockets[s].timer = "off"], s)
    /\ UNCHANGED otherThanWs

\* the oldest retry timer of _handleConnectionFailure fires
RetryTimerFires ==
    /\ ws.retryTimers # <<>>
    /\ Len(ws.sockets) < MaxSockets
    /\ LET w == [WsBegin(ws, "other") EXCEPT !.retryTimers = Tail(@)]
       IN  ws' = FallbackAttemptConnection(w, Head(ws.retryTimers).prom)
    /\ UNCHANGED otherThanWs

\* a 100 ms checkConnection timer fires (polling revision)
PollTimerFires(p) ==
    /\ p \in ws.pollTimers
    /\ ws' = CheckConnection([WsBegin(ws, "other") EXCEPT !.pollTimers = @ \ {p}], p)
    /\ UNCHANGED otherThanWs

\* the Socket.IO client script finishes loading
LoadIo ==
    /\ ~ws.io
    /\ ws' = [WsBegin(ws, "other") EXCEPT !.io = TRUE]
    /\ UNCHANGED otherThanWs

InitWs ==
    /\ sm = SmInit("plain")
    /\ rc = RcIdle
    /\ ap = ApIdle
    /\ \E rev \in WsRevisions, io \in BOOLEAN : ws = WsInit(rev, io)
    /\ ac = AcIdle
    /\ vad = VadIdle

Timers ==
    \/ \E s \in SocketIds(ws) : ConnectionTimeoutFires(s)
    \/ RetryTimerFires
    \/ \E p \in PromiseIds(ws) : PollTimerFires(p)

NextWs ==
    \/ Connect
    \/ Disconnect
    \/ \E throws \in BOOLEAN : Emit(throws)
    \/ \E s \in SocketIds(ws) : SocketConnects(s)
    \/ \E s \in SocketIds(ws) : SocketConnectError(s)
    \/ \E s \in SocketIds(ws) : SocketDrops(s)
    \/ Timers
    \/ LoadIo

SpecWs == InitWs /\ [][NextWs]_vars

\* timers that are armed do fire; socket events and calls are up to the environment
SpecWsFair == SpecWs /\ WF_vars(Timers)

(***************************************************************************)
(* Properties of the transport                                             *)
(***************************************************************************)
LiveSockets(w) == {s \in SocketIds(w) : w.sockets[s].status \in {"connecting", "open"}}

\* promises, not torn down by disconnect(), whose attempt chain can still act:
\* a socket that can fire an event, an armed connection timeout or an armed
\* retry timer
ActiveChains(w) ==
    {p \in PromiseIds(w) :
        /\ Pending(w, p)
        /\ ~w.promises[p].torn
        /\ \/ \E s \in SocketIds(w) :
                 /\ w.sockets[s].prom = p
                 /\ w.sockets[s].status = "connecting" \/ w.sockets[s].timer = "armed"
           \/ \E i \in 1..Len(w.retryTimers) : w.retryTimers[i].prom = p}

\* C5: (fallback and single revisions) a connect() made while an earlier
\* connect() is still pending, with no disconnect() in between, creates no
\* socket and returns the pending promise, so both calls settle together.
C5_ConcurrentConnectShares ==
    (ws.lastOp = "connect" /\ ws.rev \in {"fallback", "single"} /\ ws.lastPending # {}) =>
        /\ ~ws.lastCreated
        /\ ws.lastRet \in ws.lastPending

\* the same while the pending promise is still this.connectionPromise
ConnectSharesWhileRecorded ==
    (ws.lastOp = "connect" /\ ws.rev \in PromiseRevisions
        /\ ws.lastRet \in ws.lastPending) => ~ws.lastCreated

\* C6: (fallback and namespace revisions) at most one socket created by the
\* instance is open or connecting at any time, and at most one attempt chain
\* is active.
C6_OneLiveSocket ==
    ws.rev \in {"fallback", "namespace"} =>
        /\ Cardinality(LiveSockets(ws)) <= 1
        /\ Cardinality(ActiveChains(ws)) <= 1

\* the fallback revision alone
OneLiveSocketFallback ==
    ws.rev = "fallback" => Cardinality(LiveSockets(ws)) <= 1

\* the transports of the attempts made for promise p, in order
AttemptsOf(w, p) ==
    LET mine == SelectSeq(w.sockets, LAMBDA r : r.prom = p)
    IN  [i \in 1..Len(mine) |-> mine[i].transports]

\* C7: (fallback revision) a promise rejected because every attempt failed was
\* rejected after exactly three attempts, made with websocket only, then
\* polling+websocket, then polling only, and no attempt is made for it later.
C7_RejectedAfterThreeAttempts ==
    ws.rev = "fallback" =>
        \A p \in PromiseIds(ws) :
            (ws.promises[p].state = "rejected"
                /\ ws.promises[p].error = "Connection failed after attempts") =>
            AttemptsOf(ws, p) = <<"websocket", "polling+websocket", "polling">>

\* a promise of an auto-reconnect revision that connect() returned, that is
\* still pending and that no disconnect() has torn down
WaitingForSettlement(p) ==
    /\ ws.rev \in {"promise", "polling", "client"}
    /\ p \in PromiseIds(ws)
    /\ Pending(ws, p)
    /\ ~ws.promises[p].torn

\* C8: (promise, polling and client revisions) every promise returned by
\* connect() is eventually resolved or rejected, whatever the socket does.
C8_ConnectSettles ==
    \A p \in 1..MaxPromises :
        [](WaitingForSettlement(p) =>
              <>(p \in PromiseIds(ws) /\ (~Pending(ws, p) \/ ws.promises[p].torn)))

\* C9: emit() returns false and hands nothing to the socket, without throwing,
\* whenever there is no socket or the connection is not marked connected; it
\* returns true only when the payload was handed to the socket.
C9_EmitGuard ==
    ws.lastOp = "emit" =>
        /\ (~ws.lastEmit.hadSocket \/ ~ws.lastEmit.wasConnected) =>
              (ws.lastEmit.ret = "false" /\ ~ws.lastEmit.handed)
        /\ ws.lastEmit.ret = "true" =>
              (ws.lastEmit.handed /\ ws.lastEmit.hadSocket /\ ws.lastEmit.wasConnected)

\* emit() refused on a socket that exists but has not connected yet
C9_Witness ==
    /\ ws.lastOp = "emit"
    /\ ws.lastEmit.hadSocket
    /\ ~ws.lastEmit.wasConnected
    /\ ws.lastEmit.ret = "false"

NotLoaded == "Socket.IO client library not loaded"

\* C10: (fallback, polling and client revisions) connect() called while
\* window.io is missing rejects with 'Socket.IO client library not loaded',
\* creates no socket, leaves connected and connecting false and leaves no
\* in-flight promise behind.
C10_NoLibraryLeavesNothing ==
    (ws.lastOp = "connect" /\ ~ws.lastIo /\ ws.rev \in {"fallback", "polling", "client"}) =>
        /\ ws.promises[ws.lastRet].state = "rejected"
        /\ ws.promises[ws.lastRet].error = NotLoaded
        /\ ~ws.lastCreated
        /\ ~ws.connected
        /\ ~ws.connecting
        /\ ws.connectionPromise = 0

\* what does hold in every revision: the rejection, and no socket
NoLibraryRejects ==
    (ws.lastOp = "connect" /\ ~ws.lastIo) =>
        /\ ws.promises[ws.lastRet].state = "rejected"
        /\ ws.promises[ws.lastRet].error = NotLoaded
        /\ ~ws.lastCreated
        /\ ~ws.connected
        /\ ~ws.connecting

\* in the revisions without connectionPromise nothing is left behind
NoLibraryLeavesNothingPlain ==
    (ws.lastOp = "connect" /\ ~ws.lastIo /\ ws.rev \in {"polling", "client"}) =>
        ws.connectionPromise = 0

\* in the connectionPromise revisions the rejected promise stays recorded
NoLibraryPromiseStays ==
    (ws.lastOp = "connect" /\ ~ws.lastIo /\ ws.rev \in PromiseRevisions) =>
        ws.connectionPromise = ws.lastRet

StaleCallbackOf ==
    \/ \E s \in SocketIds(ws) :
          /\ ws.promises[ws.sockets[s].prom].torn
          /\ \/ ConnectionTimeoutFires(s)
             \/ SocketConnects(s)
             \/ SocketConnectError(s)
             \/ SocketDrops(s)
    \/ /\ ws.retryTimers # <<>>
       /\ ws.promises[Head(ws.retryTimers).prom].torn
       /\ RetryTimerFires

\* a timer or socket callback of an attempt that disconnect() tore down, run
\* while a later attempt is in flight
StaleCallback ==
    /\ \E p \in PromiseIds(ws) : Pending(ws, p) /\ ~ws.promises[p].torn
    /\ StaleCallbackOf

\* what a stale callback must leave alone: the current socket, the flags, the
\* recorded promise, the retry budget and every promise not torn down
AttemptUntouched ==
    /\ ws'.socket = ws.socket
    /\ ws'.connected = ws.connected
    /\ ws'.connecting = ws.connecting
    /\ ws'.connectionPromise = ws.connectionPromise
    /\ ws'.reconnectAttempts = ws.reconnectAttempts
    /\ \A s \in SocketIds(ws) :
          ~ws.promises[ws.sockets[s].prom].torn => ws'.sockets[s] = ws.sockets[s]
    /\ \A p \in PromiseIds(ws) : ~ws.promises[p].torn => ws'.promises[p] = ws.promises[p]

\* connect() right after disconnect() starts as on a new instance
StartsClean ==
    (ws.lastOp = "disconnect" /\ ws'.lastOp = "connect" /\ ws'.lastCreated) =>
        /\ ws'.reconnectAttempts = 0
        /\ ws'.sockets[ws'.socket].transports = WsFirstTransports(ws.rev)

\* (fallback and single revisions) the attempt started after disconnect() has
\* the first transport strategy and the full retry budget
ConnectAfterDisconnectStartsClean ==
    [][ws.rev \in {"fallback", "single"} => StartsClean]_vars

\* (fallback and single revisions) no callback of a torn-down attempt touches
\* the attempt that followed it
StaleCallbacksAreInert ==
    [][(ws.rev \in {"fallback", "single"} /\ StaleCallback) => AttemptUntouched]_vars

\* C11: (fallback and single revisions) connect() after disconnect() starts
\* with the first transport strategy and the full retry budget, and no timer
\* or socket callback left over from the torn-down attempt changes the new
\* attempt's socket, flags or promise.
C11_DisconnectResets ==
    [][ws.rev \in {"fallback", "single"} =>
          /\ StartsClean
          /\ StaleCallback => AttemptUntouched]_vars

Settled(w, p, state) == w.promises[p].state = state

Waiters(w) == {p \in PromiseIds(w) : w.promises[p].waits # 0}

\* C31: (polling revision) a connect() made while another attempt is in
\* flight settles the way that attempt does: it resolves only if the
\* in-flight call resolves and rejects only if the in-flight call rejects,
\* also when the attempt gets a connect_error that does not exhaust
\* maxReconnectAttempts.
C31_WaiterSettlesAlike ==
    ws.rev = "polling" =>
        \A p \in Waiters(ws) :
            /\ ~(Settled(ws, p, "rejected") /\ Settled(ws, ws.promises[p].waits, "resolved"))
            /\ ~(Settled(ws, p, "resolved") /\ Settled(ws, ws.promises[p].waits, "rejected"))

\* a waiting call resolves only at a moment the connection is connected
WaiterResolvesConnected ==
    [][\A p \in Waiters(ws') :
          (ws.rev = "polling" /\ p \in PromiseIds(ws) /\ Pending(ws, p) /\ Settled(ws', p, "resolved"))
              => ws'.connected]_vars

\* a waiting call is rejected while the attempt goes on
WaiterRejectedAttemptPending ==
    /\ ws.rev = "polling"
    /\ \E p \in Waiters(ws) :
          Settled(ws, p, "rejected") /\ Pending(ws, ws.promises[p].waits)

(***************************************************************************)
(* connect() after the server closed an established connection             *)
(***************************************************************************)
\* the call that just returned was connect() and handed out a fulfilled promise
ReturnedFulfilled(w) ==
    /\ w.lastOp = "connect"
    /\ w.lastRet # 0
    /\ w.promises[w.lastRet].state = "resolved"

\* C38: a promise returned by connect() is fulfilled only if the connection
\* is connected when that call completes; after a successful connect and a
\* 'disconnect' event from the server the next connect() starts a new
\* attempt and does not return the earlier, fulfilled promise.
C38_FulfilledMeansConnected ==
    (ws.rev \in {"fallback", "promise"} /\ ReturnedFulfilled(ws)) => AlreadyConnected(ws)

\* the revision whose 'disconnect' handler clears connectionPromise
FulfilledMeansConnectedSingle ==
    (ws.rev = "single" /\ ReturnedFulfilled(ws)) => AlreadyConnected(ws)

\* connect() returned the promise of the attempt the server has closed since
StalePromiseReturned(rev) ==
    /\ ws.rev = rev
    /\ ReturnedFulfilled(ws)
    /\ ~ws.connected
    /\ ~ws.lastCreated
    /\ ws.lastRet = ws.connectionPromise

(***************************************************************************)
(* The connection registry: window.WebSocketConnections keeps the          *)
(* WebSocketConnection made for a namespace, and the constructor returns    *)
(* the registered object instead of the new one.  ws is the object          *)
(* registered for '/travel/ws'; registry, instances and clients record      *)
(* which object every WebSocketClient holds.                                *)
(***************************************************************************)
RegistryRevisions == {"polling", "namespace"}

MaxClients == 2

\* the same with the registry never consulted
NewWebSocketConnectionUnshared(w) ==
    [w EXCEPT !.instances = @ + 1, !.registry = w.instances + 1, !.lastRet = w.instances + 1]

\* new WebSocketConnection('/travel/ws'); lastRet is the object the
\* expression evaluates to
NewWebSocketConnection(w) ==
    IF w.registry # 0
    THEN [w EXCEPT !.lastRet = w.registry]
    ELSE [w EXCEPT !.instances = @ + 1, !.registry = w.instances + 1, !.lastRet = w.instances + 1]

\* new WebSocketClient()
NewWebSocketClientBody(w) ==
    LET w1 == NewWebSocketConnection(w)
    IN  [w1 EXCEPT !.clients = Append(@, w1.lastRet)]

NewWebSocketClient ==
    /\ Len(ws.clients) < MaxClients
    /\ ws' = NewWebSocketClientBody(WsBegin(ws, "newClient"))
    /\ UNCHANGED otherThanWs

\* WebSocketClient.connect() of client c: this.connection.connect()
ClientConnect(c) ==
    /\ ws.clients[c] = 1
    /\ Connect

InitRegistry ==
    /\ sm = SmInit("plain")
    /\ rc = RcIdle
    /\ ap = ApIdle
    /\ ac = AcIdle
    /\ vad = VadIdle
    /\ \E rev \in RegistryRevisions :
          ws = [WsInit(rev, TRUE) EXCEPT !.registry = 0, !.instances = 0, !.clients = <<>>]

NextRegistry ==
    \/ NewWebSocketClient
    \/ \E c \in DOMAIN ws.clients : ClientConnect(c)
    \/ \E s \in SocketIds(ws) : SocketConnects(s)
    \/ \E s \in SocketIds(ws) : SocketConnectError(s)
    \/ \E s \in SocketIds(ws) : SocketDrops(s)
    \/ \E s \in SocketIds(ws) : ConnectionTimeoutFires(s)
    \/ \E p \in PromiseIds(ws) : PollTimerFires(p)

SpecRegistry == InitRegistry /\ [][NextRegistry]_vars

\* every construction for the namespace yields the one registered object
SharedInstance ==
    ws.rev \in RegistryRevisions =>
        /\ ws.instances <= 1
        /\ \A c \in DOMAIN ws.clients : ws.clients[c] = ws.registry

\* C27: constructing WebSocketConnection for the same namespace any number
\* of times (two WebSocketClient objects of a double initialization) yields
\* one shared instance, and the clients of the endpoint share at most one
\* live socket.
C27_RegistryOneSocket ==
    /\ SharedInstance
    /\ ws.rev \in RegistryRevisions => Cardinality(LiveSockets(ws)) <= 1

\* two clients, one object, two live sockets
TwoClientsTwoSockets ==
    /\ ws.rev = "polling"
    /\ Len(ws.clients) = 2
    /\ ws.instances = 1
    /\ Cardinality(LiveSockets(ws)) = 2

(***************************************************************************)
(* RealtimeController: coordinates AudioCapture, AudioPlayer,               *)
(* WebSocketClient and VoiceStateMachine.  Two revisions:                   *)
(*   lazy    controller.js   components are created by initialize()         *)
(*   eager   part_009        components are created by the constructor      *)
(* Of the components the controller keeps what disconnect() touches: the    *)
(* microphone stream and the capture flag of AudioCapture, the socket of    *)
(* WebSocketClient and the state of VoiceStateMachine.                      *)
(***************************************************************************)
RcRevisions == {"lazy", "eager"}

MaxDisconnects == 2

\* constructor
RcInit(rev) ==
    [rev |-> rev,
     components |-> (rev = "eager"),  \* audioCapture, audioPlayer, wsClient, stateMachine
     stream |-> FALSE,                \* audioCapture.stream
     micLive |-> FALSE,               \* the tracks of the stream getUserMedia granted
     active |-> FALSE,                \* audioCapture.active
     playing |-> FALSE,               \* audioPlayer is playing
     socket |-> "null",               \* wsClient.socket
     wsConnected |-> FALSE,           \* wsClient.connected
     smState |-> "WAITING",           \* stateMachine.currentState
     ready |-> FALSE,                 \* ready / isInitialized
     connected |-> FALSE,             \* connected / isConnected
     disconnects |-> 0,               \* disconnect() calls so far
     lastOp |-> "new",
     threw |-> FALSE,
     ret |-> "none",                  \* what the last call resolved with
     events |-> <<>>]

\* the fields of the program, without the record of the last call
RcProgramState(c) ==
    <<c.components, c.stream, c.micLive, c.active, c.playing, c.socket, c.wsConnected,
      c.smState, c.ready, c.connected>>

RcBegin(c, op) == [c EXCEPT !.lastOp = op, !.threw = FALSE, !.ret = "none", !.events = <<>>]

\* _trigger(event): the listeners of the event are called
RcTrigger(c, event) == [c EXCEPT !.events = Append(@, event)]

\* AudioCapture.initialize(): getUserMedia grants the stream or rejects
CaptureInitialize(c, micOk) ==
    IF micOk THEN [c EXCEPT !.stream = TRUE, !.micLive = TRUE] ELSE c

\* AudioCapture.start()
CaptureStart(c) ==
    IF c.active \/ ~c.stream THEN c ELSE [c EXCEPT !.active = TRUE]

\* AudioCapture.stop()
CaptureStop(c) ==
    IF ~c.active THEN c ELSE [c EXCEPT !.active = FALSE]

\* AudioPlayer.stop()
PlayerStop(c) == [c EXCEPT !.playing = FALSE]

\* WebSocketClient.disconnect()
ClientDisconnect(c) ==
    IF c.socket = "live"
    THEN [c EXCEPT !.socket = "null", !.wsConnected = FALSE]
    ELSE c

\* VoiceStateMachine.reset()
MachineReset(c) == [c EXCEPT !.smState = "WAITING"]

\* initialize(); micOk: getUserMedia grants the microphone
RcInitializeBody(c, micOk) ==
    LET c1 == [c EXCEPT !.components = TRUE]
    IN  IF micOk
        THEN [CaptureInitialize(c1, micOk) EXCEPT !.ready = TRUE, !.ret = "true"]
        ELSE [RcTrigger(c1, "error") EXCEPT !.ret = "false"]

\* connect(); wsOk: the socket connects and the server confirms,
\* sessionOk: the session starts before its timeout (lazy revision)
RcConnectBody(c, micOk, wsOk, sessionOk) ==
    LET c1 == IF c.ready THEN c ELSE RcInitializeBody(c, micOk)
        c2 == [c1 EXCEPT !.socket = "live", !.wsConnected = wsOk]
    IN  IF ~wsOk THEN [RcTrigger(c2, "error") EXCEPT !.ret = "false"]
        ELSE LET c3 == RcTrigger([CaptureStart(c2) EXCEPT !.connected = TRUE], "connected")
             IN  IF c.rev = "eager" THEN [c3 EXCEPT !.ret = "true"]
                 ELSE IF sessionOk THEN [RcTrigger(c3, "ready") EXCEPT !.ret = "true"]
                 ELSE [RcTrigger(c3, "error") EXCEPT !.ret = "false"]

\* disconnect(); this.audioCapture.stop() on null raises a TypeError
RcDisconnectBody(c) ==
    IF ~c.components THEN [c EXCEPT !.threw = TRUE]
    ELSE RcTrigger([MachineReset(ClientDisconnect(PlayerStop(CaptureStop(c)))) EXCEPT !.connected = FALSE],
                   "disconnected")

RcInitialize(micOk) ==
    /\ rc' = RcInitializeBody(RcBegin(rc, "initialize"), micOk)
    /\ UNCHANGED otherThanRc

RcConnect(micOk, wsOk, sessionOk) ==
    /\ rc' = RcConnectBody(RcBegin(rc, "connect"), micOk, wsOk, sessionOk)
    /\ UNCHANGED otherThanRc

RcDisconnect ==
    /\ rc.disconnects < MaxDisconnects
    /\ rc' = RcDisconnectBody([RcBegin(rc, "disconnect") EXCEPT !.disconnects = @ + 1])
    /\ UNCHANGED otherThanRc

\* speech is detected while connected: the state machine leaves WAITING
RcSpeechDetected ==
    /\ rc.connected
    /\ rc.smState = "WAITING"
    /\ rc' = [RcBegin(rc, "speech") EXCEPT !.smState = "LISTENING"]
    /\ UNCHANGED otherThanRc

\* the server sends audio while connected: the player starts playing
RcAudioReceived ==
    /\ rc.connected
    /\ ~rc.playing
    /\ rc' = [RcBegin(rc, "audio") EXCEPT !.playing = TRUE]
    /\ UNCHANGED otherThanRc

InitRc ==
    /\ sm = SmInit("plain")
    /\ ws = WsIdle
    /\ ap = ApIdle
    /\ \E rev \in RcRevisions : rc = RcInit(rev)
    /\ ac = AcIdle
    /\ vad = VadIdle

NextRc ==
    \/ \E micOk \in BOOLEAN : RcInitialize(micOk)
    \/ \E micOk, wsOk, sessionOk \in BOOLEAN : RcConnect(micOk, wsOk, sessionOk)
    \/ RcDisconnect
    \/ RcSpeechDetected
    \/ RcAudioReceived

SpecRc == InitRc /\ [][NextRc]_vars

(***************************************************************************)
(* Properties of the controller                                            *)
(***************************************************************************)
\* the second of two consecutive disconnect() calls changes nothing and
\* emits nothing
SecondDisconnectIsNoOp ==
    (rc.lastOp = "disconnect" /\ ~rc.threw /\ rc'.lastOp = "disconnect") =>
        /\ ~rc'.threw
        /\ RcProgramState(rc') = RcProgramState(rc)
        /\ rc'.events = <<>>

\* C12: RealtimeController.disconnect() raises no error in any state (before
\* initialize(), after a failed initialize() or connect(), twice in a row),
\* and the second of two consecutive calls changes no state and emits no
\* event.
C12_DisconnectSafeAndIdempotent ==
    /\ [](rc.lastOp = "disconnect" => ~rc.threw)
    /\ [][SecondDisconnectIsNoOp]_vars

\* the second call alone
SecondDisconnectQuiet == [][SecondDisconnectIsNoOp]_vars

\* disconnect() never raises in the eager revision
DisconnectNeverThrowsEager ==
    (rc.rev = "eager" /\ rc.lastOp = "disconnect") => ~rc.threw

\* the second of two consecutive calls leaves the program state alone
SecondDisconnectKeepsState ==
    [][(rc.lastOp = "disconnect" /\ ~rc.threw /\ rc'.lastOp = "disconnect") =>
          RcProgramState(rc') = RcProgramState(rc)]_vars

\* C13: after RealtimeController.disconnect() has returned, the microphone
\* stream acquired by AudioCapture.initialize() has been released and the
\* socket has been closed.
C13_DisconnectReleases ==
    (rc.lastOp = "disconnect" /\ ~rc.threw) =>
        /\ ~rc.micLive
        /\ rc.socket # "live"

\* the socket half does hold
DisconnectClosesSocket ==
    (rc.lastOp = "disconnect" /\ ~rc.threw) => rc.socket # "live"

\* the microphone has been denied so far: ready is set by initialize() only
\* once AudioCapture.initialize() has resolved
MicDenied == rc.rev \in RcRevisions /\ ~rc.ready

Emitted(event) == \E i \in DOMAIN rc.events : rc.events[i] = event

\* initialize() reports the denial: one 'error' event, false
InitializeReportsDenial ==
    (MicDenied /\ rc.lastOp = "initialize") => (rc.events = <<"error">> /\ rc.ret = "false")

\* connect() with the microphone denied does not establish the session
ConnectRefusedWithoutMic ==
    (MicDenied /\ rc.lastOp = "connect") =>
        /\ rc.ret = "false"
        /\ rc.socket = "null"
        /\ ~rc.connected
        /\ ~Emitted("connected")
        /\ ~Emitted("ready")

\* C22: when AudioCapture.initialize() rejects (microphone denied),
\* RealtimeController.initialize() reports failure with an 'error' event, and
\* a subsequent or enclosing connect() returns false without opening the
\* transport, marking the controller connected, or emitting 'connected' or
\* 'ready'.
C22_MicDeniedNoSession ==
    /\ InitializeReportsDenial
    /\ ConnectRefusedWithoutMic

(***************************************************************************)
(* RealtimeController.connect(), singleton revision (controller.js): the   *)
(* session phase.  After the transport is connected connect() awaits        *)
(* _startSessionWithTimeout(), which registers a 'session_started' and an   *)
(* 'error' handler on wsClient, arms a 25 s timer and sends start_session.  *)
(* Every connect() call is an attempt; the handlers and the timer of an     *)
(* attempt are closures over that attempt's promise.  The backend answers   *)
(* a start_session request at most once, at any later moment.               *)
(***************************************************************************)
MaxConnects == 3

SessionInit ==
    [rev |-> "singleton",
     connected |-> FALSE,
     streaming |-> FALSE,     \* audioCapture started and enabled
     attempts |-> <<>>,       \* the connect() calls, in call order
     lastOp |-> "new"]

AttemptIds(c) == 1..Len(c.attempts)

\* _startSessionWithTimeout(): timer armed, both handlers registered,
\* start_session sent
StartSessionWithTimeout(emitted) ==
    [result |-> "pending",          \* what connect() resolved with
     timeout |-> TRUE,              \* the 25 s timer is armed
     sessionHandler |-> TRUE,       \* registered on wsClient
     errorHandler |-> TRUE,         \* registered on wsClient
     requested |-> TRUE,            \* start_session was sent
     answer |-> "none",             \* the backend's answer to this request
     timedOut |-> FALSE,
     during |-> {},                 \* the calls that had not returned when this one was made
     emitted |-> emitted]           \* events connect() triggered, in order

\* connect() whose transport does not connect: catch, 'error', false
ConnectFailed ==
    [result |-> "false", timeout |-> FALSE, sessionHandler |-> FALSE,
     errorHandler |-> FALSE, requested |-> FALSE, answer |-> "none",
     timedOut |-> FALSE, during |-> {}, emitted |-> <<"error">>]

\* connect(); wsOk: wsClient.connect() resolves and 'connected' arrives
SessionConnectBody(c, wsOk) ==
    IF wsOk
    THEN [c EXCEPT !.connected = TRUE,
                   !.streaming = TRUE,
                   !.attempts = Append(@, StartSessionWithTimeout(<<"connected">>))]
    ELSE [c EXCEPT !.attempts = Append(@, ConnectFailed)]

\* the rejection reaches connect(): catch, 'error', return false
Rejected(a) ==
    IF a.result = "pending"
    THEN [a EXCEPT !.result = "false", !.emitted = Append(@, "error")]
    ELSE a

\* sessionHandler: clearTimeout, off, off, _trigger('ready'), resolve
SessionHandler(a) ==
    [a EXCEPT !.timeout = FALSE, !.sessionHandler = FALSE, !.errorHandler = FALSE,
              !.emitted = Append(@, "ready"),
              !.result = IF @ = "pending" THEN "true" ELSE @]

\* errorHandler: clearTimeout, off, off, reject
ErrorHandler(a) ==
    Rejected([a EXCEPT !.timeout = FALSE, !.sessionHandler = FALSE, !.errorHandler = FALSE])

\* wsClient._triggerHandlers(event): every handler registered for the event
TriggerHandlers(c, event) ==
    [c EXCEPT !.attempts =
        [i \in DOMAIN @ |->
            IF event = "session_started" /\ @[i].sessionHandler THEN SessionHandler(@[i])
            ELSE IF event = "error" /\ @[i].errorHandler THEN ErrorHandler(@[i])
            ELSE @[i]]]

\* the 25 s timer of attempt a: reject; the handlers stay registered
SessionTimeoutBody(c, a) ==
    [c EXCEPT !.attempts[a] = Rejected([@ EXCEPT !.timeout = FALSE, !.timedOut = TRUE])]

SessionConnect(wsOk) ==
    /\ Len(rc.attempts) < MaxConnects
    /\ rc' = [SessionConnectBody([rc EXCEPT !.lastOp = "connect"], wsOk) EXCEPT
                 !.attempts[Len(rc.attempts) + 1].during =
                     {a \in AttemptIds(rc) : rc.attempts[a].result = "pending"}]
    /\ UNCHANGED otherThanRc

\* the backend's answer to the start_session of attempt k arrives
BackendAnswers(k, event) ==
    /\ rc.attempts[k].requested
    /\ rc.attempts[k].answer = "none"
    /\ rc' = TriggerHandlers([rc EXCEPT !.lastOp = event, !.attempts[k].answer = event], event)
    /\ UNCHANGED otherThanRc

SessionTimeoutFires(a) ==
    /\ rc.attempts[a].timeout
    /\ rc' = SessionTimeoutBody([rc EXCEPT !.lastOp = "timeout"], a)
    /\ UNCHANGED otherThanRc

InitSession ==
    /\ sm = SmInit("plain")
    /\ ws = WsIdle
    /\ ap = ApIdle
    /\ rc = SessionInit
    /\ ac = AcIdle
    /\ vad = VadIdle

NextSession ==
    \/ \E wsOk \in BOOLEAN : SessionConnect(wsOk)
    \/ \E k \in AttemptIds(rc), event \in {"session_started", "error"} : BackendAnswers(k, event)
    \/ \E a \in AttemptIds(rc) : SessionTimeoutFires(a)

SpecSession == InitSession /\ [][NextSession]_vars

(***************************************************************************)
(* Properties of the session phase                                         *)
(***************************************************************************)
\* connect() call a declared the session ready
DeclaredReady(a) == a.result = "true" \/ (\E i \in DOMAIN a.emitted : a.emitted[i] = "ready")

\* connect() call a reported failure
ReportedFailure(a) == a.result = "false" /\ (\E i \in DOMAIN a.emitted : a.emitted[i] = "error")

Confirmed(a) ==
    /\ DeclaredReady(a) => a.answer = "session_started"
    /\ (a.answer = "error" \/ a.timedOut) => ReportedFailure(a)

\* C21: connect() of the singleton revision resolves true and emits 'ready'
\* only after session_started has been received in answer to its own
\* start_session request; when the backend answers with an error or does not
\* confirm within the session-activation timeout, connect() resolves false
\* and emits 'error'.
C21_ReadyOnlyAfterConfirmation ==
    rc.rev = "singleton" => \A a \in AttemptIds(rc) : Confirmed(rc.attempts[a])

\* as long as connect() has been called once the claim holds
SingleConnectConfirmed ==
    (rc.rev = "singleton" /\ Len(rc.attempts) = 1) => Confirmed(rc.attempts[1])

\* a timeout or a backend error is always reported as failure by the call
\* that was waiting: the second half holds for every call that did not
\* declare the session ready before
FailureReported ==
    rc.rev = "singleton" =>
        \A a \in AttemptIds(rc) :
            (rc.attempts[a].timedOut \/ (rc.attempts[a].answer = "error" /\ rc.attempts[a].result # "true"))
                => ReportedFailure(rc.attempts[a])

\* a call never resolves true on the late answer to an earlier call that had
\* timed out, with its own request refused by the backend afterwards
NoStaleConfirmation ==
    rc.rev = "singleton" =>
        ~(\E a, b \in AttemptIds(rc) :
            /\ a < b
            /\ rc.attempts[a].timedOut
            /\ rc.attempts[a].answer = "session_started"
            /\ rc.attempts[b].result = "true"
            /\ rc.attempts[b].answer = "error")

Count(x, seq) == Cardinality({i \in DOMAIN seq : seq[i] = x})

Overlapping(c, a, b) == a \in c.attempts[b].during

\* C35: two connect() calls that overlap establish one session: exactly one
\* start_session is sent, 'connected' and 'ready' are each emitted once, and
\* both calls return the same result.
C35_OverlappingConnectsShare ==
    rc.rev = "singleton" =>
        \A a, b \in AttemptIds(rc) :
            Overlapping(rc, a, b) =>
                /\ ~(rc.attempts[a].requested /\ rc.attempts[b].requested)
                /\ Count("connected", rc.attempts[a].emitted \o rc.attempts[b].emitted) <= 1
                /\ Count("ready", rc.attempts[a].emitted \o rc.attempts[b].emitted) <= 1
                /\ (rc.attempts[a].result # "pending" /\ rc.attempts[b].result # "pending")
                      => rc.attempts[a].result = rc.attempts[b].result

\* every call whose transport connects sends its own start_session and emits
\* its own 'connected'
EveryConnectStartsSession ==
    rc.rev = "singleton" =>
        \A a \in AttemptIds(rc) :
            rc.attempts[a].emitted # <<"error">> =>
                rc.attempts[a].requested /\ Head(rc.attempts[a].emitted) = "connected"

\* two overlapping calls with different results
OverlappingConnectsDisagree ==
    /\ rc.rev = "singleton"
    /\ \E a, b \in AttemptIds(rc) :
          Overlapping(rc, a, b) /\ rc.attempts[a].result = "true" /\ rc.attempts[b].result = "false"

AllFailed(c) == c.attempts # <<>> /\ \A a \in AttemptIds(c) : c.attempts[a].result = "false"

\* C36: once connect() has returned false (transport failure, session
\* error, session-activation timeout), the connected flag is false, the
\* capture is not streaming, and no 'ready' or 'connected' is emitted for
\* that attempt afterwards, even if session_started arrives late.
C36_FailedConnectLeavesNothing ==
    (rc.rev = "singleton" /\ AllFailed(rc)) =>
        /\ ~rc.connected
        /\ ~rc.streaming
        /\ \A a \in AttemptIds(rc) :
              rc.attempts[a].emitted[Len(rc.attempts[a].emitted)] = "error"

\* a connect() whose transport fails leaves nothing behind
TransportFailureLeavesNothing ==
    (rc.rev = "singleton" /\ AllFailed(rc) /\ \A a \in AttemptIds(rc) : ~rc.attempts[a].requested) =>
        ~rc.connected /\ ~rc.streaming

\* 'ready' emitted for a call that had returned false
ReadyAfterFailure ==
    /\ rc.rev = "singleton"
    /\ Len(rc.attempts) = 1
    /\ rc.attempts[1].result = "false"
    /\ rc.attempts[1].emitted = <<"connected", "error", "ready">>

(***************************************************************************)
(* AudioPlayer, queue-based revision (part_015): playAudioData pushes the  *)
(* decoded buffer on audioQueue and one asynchronous _processQueue loop     *)
(* plays the buffers one after the other.  A loop is suspended at           *)
(* `await this._playBuffer(...)` until the source's onended runs, and at    *)
(* `await this._wait(5)` until the timer fires.  Chunks are numbered in     *)
(* the order playAudioData is called.                                       *)
(***************************************************************************)
MaxChunks == 3
MaxStops == 2

QueueInit(context) ==
    [rev |-> "queue",
     audioContext |-> context,
     audioQueue |-> <<>>,
     isPlaying |-> FALSE,
     isProcessingQueue |-> FALSE,
     currentSource |-> 0,
     sources |-> <<>>,        \* buffer sources in the order they were started
     loops |-> <<>>,          \* the _processQueue invocations that entered the loop
     arrived |-> 0,           \* playAudioData calls so far
     refused |-> {},          \* chunks returned at 'AudioContext not initialized'
     callbacks |-> <<>>,      \* onPlaybackStart / onPlaybackEnd calls, in order
     stops |-> 0,
     stoppedUpTo |-> 0,       \* chunks that had arrived at the last stop()
     sourcesAtStop |-> 0,     \* sources that had been started at the last stop()
     wasActive |-> FALSE,     \* isActive() just before the last stop()
     lastOp |-> "new"]

SourceIds(a) == 1..Len(a.sources)
LoopIds(a) == 1..Len(a.loops)

\* isActive()
QueueIsActive(a) == a.isPlaying \/ Len(a.audioQueue) > 0

\* _playBuffer(audioBuffer) called by loop l: up to source.start(0)
PlayBuffer(a, chunk, l) ==
    LET a1 == IF ~a.isPlaying
              THEN [a EXCEPT !.isPlaying = TRUE, !.callbacks = Append(@, "start")]
              ELSE a
        s  == Len(a.sources) + 1
    IN  [a1 EXCEPT !.sources = Append(@, [chunk |-> chunk, status |-> "playing", loop |-> l]),
                   !.currentSource = s,
                   !.loops[l] = [pc |-> "play", src |-> s]]

\* mutant: the loop takes the newest buffer of the queue
ProcessQueueLoopTakesNewest(a, l) ==
    IF Len(a.audioQueue) > 0
    THEN LET n == Len(a.audioQueue)
         IN  PlayBuffer([a EXCEPT !.audioQueue = SubSeq(@, 1, n - 1)], a.audioQueue[n], l)
    ELSE [a EXCEPT !.loops[l] = [pc |-> "done", src |-> 0],
                   !.isProcessingQueue = FALSE,
                   !.isPlaying = FALSE,
                   !.callbacks = Append(@, "end")]

\* the while loop of _processQueue, from its test to the next await or to
\* the end of the function
ProcessQueueLoop(a, l) ==
    IF Len(a.audioQueue) > 0
    THEN PlayBuffer([a EXCEPT !.audioQueue = Tail(@)], Head(a.audioQueue), l)
    ELSE [a EXCEPT !.loops[l] = [pc |-> "done", src |-> 0],
                   !.isProcessingQueue = FALSE,
                   !.isPlaying = FALSE,
                   !.callbacks = Append(@, "end")]

\* _processQueue()
ProcessQueue(a) ==
    IF a.isProcessingQueue \/ Len(a.audioQueue) = 0 THEN a
    ELSE LET l == Len(a.loops) + 1
         IN  ProcessQueueLoop([a EXCEPT !.isProcessingQueue = TRUE,
                                        !.loops = Append(@, [pc |-> "start", src |-> 0])], l)

\* playAudioData(audioData)
PlayAudioDataBody(a) ==
    LET chunk == a.arrived + 1
        a1 == [a EXCEPT !.arrived = chunk]
    IN  IF ~a.audioContext THEN [a1 EXCEPT !.refused = @ \cup {chunk}]
        ELSE LET a2 == [a1 EXCEPT !.audioQueue = Append(@, chunk)]
             IN  IF ~a2.isProcessingQueue THEN ProcessQueue(a2) ELSE a2

\* source.onended of source s, and the continuation of the loop that awaited
\* it up to `await this._wait(5)`
OnEnded(a, s) ==
    LET l == a.sources[s].loop
    IN  [a EXCEPT !.sources[s].status = "ended",
                  !.currentSource = 0,
                  !.loops[l] = [pc |-> "wait", src |-> 0]]

\* stop()
QueueStopBody(a) ==
    LET a1 == IF a.currentSource # 0
              THEN [a EXCEPT !.sources[a.currentSource].status =
                                 IF @ = "playing" THEN "stopped" ELSE @,
                             !.currentSource = 0]
              ELSE a
    IN  [a1 EXCEPT !.audioQueue = <<>>,
                   !.isProcessingQueue = FALSE,
                   !.isPlaying = FALSE]

QueueInitialize ==
    /\ ap.rev = "queue"
    /\ ~ap.audioContext
    /\ ap' = [ap EXCEPT !.audioContext = TRUE, !.lastOp = "initialize"]
    /\ UNCHANGED otherThanAp

PlayAudioData ==
    /\ ap.rev = "queue"
    /\ ap.arrived < MaxChunks
    /\ ap' = PlayAudioDataBody([ap EXCEPT !.lastOp = "playAudioData"])
    /\ UNCHANGED otherThanAp

\* the buffer of source s has played to its end, or the source was stopped:
\* its 'ended' event is delivered
SourceEnded(s) ==
    /\ ap.rev = "queue"
    /\ ap.sources[s].status \in {"playing", "stopped"}
    /\ ap' = OnEnded([ap EXCEPT !.lastOp = "ended"], s)
    /\ UNCHANGED otherThanAp

\* the 5 ms timer of _wait fires and loop l goes on
WaitTimerFires(l) ==
    /\ ap.rev = "queue"
    /\ ap.loops[l].pc = "wait"
    /\ ap' = ProcessQueueLoop([ap EXCEPT !.lastOp = "timer"], l)
    /\ UNCHANGED otherThanAp

QueueStop ==
    /\ ap.rev = "queue"
    /\ ap.stops < MaxStops
    /\ ap' = QueueStopBody([ap EXCEPT !.lastOp = "stop",
                                      !.stops = @ + 1,
                                      !.stoppedUpTo = ap.arrived,
                                      !.sourcesAtStop = Len(ap.sources),
                                      !.wasActive = QueueIsActive(ap)])
    /\ UNCHANGED otherThanAp

InitQueue ==
    /\ sm = SmInit("plain")
    /\ ws = WsIdle
    /\ rc = RcIdle
    /\ \E context \in BOOLEAN : ap = QueueInit(context)
    /\ ac = AcIdle
    /\ vad = VadIdle

NextQueue ==
    \/ QueueInitialize
    \/ PlayAudioData
    \/ \E s \in SourceIds(ap) : SourceEnded(s)
    \/ \E l \in LoopIds(ap) : WaitTimerFires(l)
    \/ QueueStop

SpecQueue == InitQueue /\ [][NextQueue]_vars

(***************************************************************************)
(* Properties of the queue-based player                                    *)
(***************************************************************************)
\* the chunks in the order their buffers started playing
StartedChunks(a) == [i \in 1..Len(a.sources) |-> a.sources[i].chunk]

\* the chunks the player accepted, in arrival order
AcceptedChunks(a) ==
    SelectSeq([i \in 1..a.arrived |-> i], LAMBDA c : c \notin a.refused)

PlayingSources(a) == {s \in SourceIds(a) : a.sources[s].status = "playing"}
LiveLoops(a) == {l \in LoopIds(a) : a.loops[l].pc # "done"}

Alternates(cb) ==
    \A i \in 1..Len(cb) : cb[i] = (IF i % 2 = 1 THEN "start" ELSE "end")

\* a step in which onPlaybackEnd is called leaves the queue empty and no
\* source playing
EndFiresWhenDrained ==
    (ap.rev = "queue" /\ Len(ap'.callbacks) > Len(ap.callbacks)
        /\ ap'.callbacks[Len(ap'.callbacks)] = "end") =>
        (ap'.audioQueue = <<>> /\ PlayingSources(ap') = {})

\* C15: onPlaybackStart and onPlaybackEnd fire strictly alternately, beginning
\* with onPlaybackStart (one start per playback run), and onPlaybackEnd fires
\* only when the queue is empty and nothing is playing.
C15_CallbacksAlternate ==
    /\ [](ap.rev = "queue" => Alternates(ap.callbacks))
    /\ [][EndFiresWhenDrained]_vars

\* onPlaybackEnd alone
EndOnlyWhenDrained == [][EndFiresWhenDrained]_vars

\* without stop() the callbacks do alternate
CallbacksAlternateWithoutStop ==
    (ap.rev = "queue" /\ ap.stops = 0) => Alternates(ap.callbacks)

\* C17: right after a stop() made while playback was active the queue is
\* empty, no source is playing and isActive() is false; and no chunk that
\* had arrived before the stop() starts playing after it.
C17_StopSilences ==
    (ap.rev = "queue" /\ ap.stops > 0) =>
        /\ (ap.lastOp = "stop" /\ ap.wasActive) =>
              /\ ap.audioQueue = <<>>
              /\ PlayingSources(ap) = {}
              /\ ~QueueIsActive(ap)
        /\ \A s \in SourceIds(ap) :
              s > ap.sourcesAtStop => ap.sources[s].chunk > ap.stoppedUpTo

\* the part of C17 that holds: the queue is emptied and nothing queued
\* before the stop() is started later
StopEmptiesQueue ==
    (ap.rev = "queue" /\ ap.stops > 0) =>
        /\ ap.lastOp = "stop" => (ap.audioQueue = <<>> /\ ~QueueIsActive(ap))
        /\ \A s \in SourceIds(ap) :
              s > ap.sourcesAtStop => ap.sources[s].chunk > ap.stoppedUpTo

\* C19: at most one _processQueue loop is alive and at most one buffer source
\* is playing at any time.
C19_OneLoopOneSource ==
    ap.rev = "queue" =>
        /\ Cardinality(LiveLoops(ap)) <= 1
        /\ Cardinality(PlayingSources(ap)) <= 1

\* the two halves of C19
OneSourcePlaying ==
    ap.rev = "queue" => Cardinality(PlayingSources(ap)) <= 1

OneLoopWithoutStop ==
    (ap.rev = "queue" /\ ap.stops = 0) =>
        /\ Cardinality(LiveLoops(ap)) <= 1
        /\ Cardinality(PlayingSources(ap)) <= 1

(***************************************************************************)
(* AudioPlayer, pre-scheduling revision (part_014): every chunk is handed   *)
(* to the audio clock at once with source.start(nextStartTime).  Time is    *)
(* counted in ticks of 0.1 s of audioContext.currentTime; a source started  *)
(* with a time that has passed begins at once.                              *)
(***************************************************************************)
MaxScheduled == 3
MaxDuration == 2
MaxClock == 4

\* the delay of the first buffer of a run: currentTime + 0.1
StartDelay == 1

ScheduleInit(context) ==
    [rev |-> "schedule",
     audioContext |-> context,
     isPlaying |-> FALSE,
     currentSource |-> 0,
     nextStartTime |-> 0,
     baseTime |-> 0,
     clock |-> 0,             \* audioContext.currentTime
     sources |-> <<>>,        \* buffer sources in the order they were scheduled
     callbacks |-> <<>>,      \* onPlaybackStart / onPlaybackEnd calls, in order
     stops |-> 0,
     lastOp |-> "new"]

Max(x, y) == IF x >= y THEN x ELSE y
Min(x, y) == IF x <= y THEN x ELSE y

\* when the buffer of a source scheduled for `when` begins: source.start(when)
StartsAt(when, clock) == Max(when, clock)

\* _queueAudioBuffer(audioBuffer), the buffer lasting `duration` ticks
QueueAudioBuffer(a, duration) ==
    LET a1 == IF a.nextStartTime = 0
              THEN [a EXCEPT !.baseTime = a.clock, !.nextStartTime = a.clock + StartDelay]
              ELSE a
        a2 == [a1 EXCEPT !.sources = Append(@, [begin |-> StartsAt(a1.nextStartTime, a.clock),
                                                duration |-> duration,
                                                queuedAt |-> a.clock,
                                                stoppedAt |-> -1,
                                                ended |-> FALSE]),
                         !.nextStartTime = @ + duration]
        a3 == IF ~a2.isPlaying
              THEN [a2 EXCEPT !.isPlaying = TRUE, !.callbacks = Append(@, "start")]
              ELSE a2
    IN  [a3 EXCEPT !.currentSource = Len(a2.sources)]

\* playAudioData(audioData) with PCM16 data
SchedulePlayAudioDataBody(a, duration) ==
    IF ~a.audioContext THEN a ELSE QueueAudioBuffer(a, duration)

\* source.onended of source s
ScheduleOnEnded(a, s) ==
    LET a1 == [a EXCEPT !.sources[s].ended = TRUE]
    IN  IF ~a.isPlaying THEN [a1 EXCEPT !.callbacks = Append(@, "end")] ELSE a1

\* stop()
ScheduleStopBody(a) ==
    LET a1 == IF a.currentSource # 0
              THEN [a EXCEPT !.sources[a.currentSource].stoppedAt =
                                 IF @ = -1 THEN a.clock ELSE @,
                             !.currentSource = 0]
              ELSE a
    IN  [a1 EXCEPT !.nextStartTime = 0, !.isPlaying = FALSE]

\* isActive()
ScheduleIsActive(a) == a.isPlaying

\* the time at which source s falls silent
EndsAt(src) ==
    IF src.stoppedAt = -1 THEN src.begin + src.duration
    ELSE Max(src.begin, Min(src.stoppedAt, src.begin + src.duration))

ScheduleInitialize ==
    /\ ap.rev = "schedule"
    /\ ~ap.audioContext
    /\ ap' = [ap EXCEPT !.audioContext = TRUE, !.lastOp = "initialize"]
    /\ UNCHANGED otherThanAp

SchedulePlayAudioData(duration) ==
    /\ ap.rev = "schedule"
    /\ Len(ap.sources) < MaxScheduled
    /\ ap' = SchedulePlayAudioDataBody([ap EXCEPT !.lastOp = "playAudioData"], duration)
    /\ UNCHANGED otherThanAp

\* the 'ended' event of source s is delivered: its buffer has played to the
\* end or the source was stopped
ScheduleSourceEnded(s) ==
    /\ ap.rev = "schedule"
    /\ ~ap.sources[s].ended
    /\ ap.clock >= EndsAt(ap.sources[s])
    /\ ap' = ScheduleOnEnded([ap EXCEPT !.lastOp = "ended"], s)
    /\ UNCHANGED otherThanAp

ScheduleStop ==
    /\ ap.rev = "schedule"
    /\ ap.stops < MaxStops
    /\ ap' = ScheduleStopBody([ap EXCEPT !.lastOp = "stop", !.stops = @ + 1])
    /\ UNCHANGED otherThanAp

\* the audio clock advances
Tick ==
    /\ ap.rev = "schedule"
    /\ ap.clock < MaxClock
    /\ ap' = [ap EXCEPT !.clock = @ + 1, !.lastOp = "tick"]
    /\ UNCHANGED otherThanAp

InitSchedule ==
    /\ sm = SmInit("plain")
    /\ ws = WsIdle
    /\ rc = RcIdle
    /\ \E context \in BOOLEAN : ap = ScheduleInit(context)
    /\ ac = AcIdle
    /\ vad = VadIdle

NextSchedule ==
    \/ ScheduleInitialize
    \/ \E duration \in 1..MaxDuration : SchedulePlayAudioData(duration)
    \/ \E s \in SourceIds(ap) : ScheduleSourceEnded(s)
    \/ ScheduleStop
    \/ Tick

SpecSchedule == InitSchedule /\ [][NextSchedule]_vars

(***************************************************************************)
(* Properties of the pre-scheduling player                                 *)
(***************************************************************************)
\* C16: when every scheduled buffer has finished playing (its 'ended' event
\* delivered) and stop() was never called, onPlaybackEnd has fired and
\* isActive() is false.
C16_RunEnds ==
    (ap.rev = "schedule" /\ ap.stops = 0 /\ ap.sources # <<>>
        /\ \A s \in SourceIds(ap) : ap.sources[s].ended) =>
        /\ ~ScheduleIsActive(ap)
        /\ ap.callbacks[Len(ap.callbacks)] = "end"

\* without stop() onPlaybackEnd never fires and isActive() never falls
RunNeverEndsWithoutStop ==
    (ap.rev = "schedule" /\ ap.stops = 0 /\ ap.sources # <<>>) =>
        /\ ScheduleIsActive(ap)
        /\ ap.callbacks = <<"start">>

\* a source that still has audio to put out at the present time
Audible(a, s) ==
    /\ a.sources[s].stoppedAt = -1
    /\ a.sources[s].begin + a.sources[s].duration > a.clock

\* C18: right after stop() no buffer source started or scheduled before the
\* call has any audio left to put out.
C18_StopCancelsAll ==
    (ap.rev = "schedule" /\ ap.lastOp = "stop") =>
        \A s \in SourceIds(ap) : ~Audible(ap, s)

\* what stop() does cancel: the source scheduled last
StopCancelsLast ==
    (ap.rev = "schedule" /\ ap.lastOp = "stop" /\ ap.sources # <<>>) =>
        ~Audible(ap, Len(ap.sources))

Overlap(x, y) == x.begin < EndsAt(y) /\ y.begin < EndsAt(x)

\* C20: (no stop() so far) the playback intervals of the scheduled buffers
\* are pairwise disjoint, and a buffer queued before its predecessor has
\* finished begins exactly where the predecessor ends.
C20_IntervalsDisjoint ==
    (ap.rev = "schedule" /\ ap.stops = 0) =>
        /\ \A s, t \in SourceIds(ap) :
              s < t => ~Overlap(ap.sources[s], ap.sources[t])
        /\ \A t \in SourceIds(ap) \ {1} :
              ap.sources[t].queuedAt <= EndsAt(ap.sources[t - 1]) =>
                  ap.sources[t].begin = EndsAt(ap.sources[t - 1])

\* the intervals are disjoint as long as no chunk arrives late
DisjointWhenInTime ==
    (ap.rev = "schedule" /\ ap.stops = 0
        /\ \A t \in SourceIds(ap) \ {1} :
              ap.sources[t].queuedAt <= EndsAt(ap.sources[t - 1])) =>
        \A s, t \in SourceIds(ap) :
            s < t => ~Overlap(ap.sources[s], ap.sources[t])

\* with stop() in play as well
IntervalsDisjointAcrossStop ==
    ap.rev = "schedule" =>
        \A s, t \in SourceIds(ap) :
            s < t => ~Overlap(ap.sources[s], ap.sources[t])

(***************************************************************************)
(* AudioCapture and the uplink wiring of RealtimeSetup.setupAudioCapture.  *)
(* Two revisions of the capture class:                                      *)
(*   filtered    audio_capture.js:157-316  frames are buffered and sent     *)
(*               periodically; setEnabled pauses the sending                *)
(*   continuous  part_013:199-314          every frame is sent at once      *)
(* The filtered revision is driven by the controller of part_009            *)
(* (connect / disconnect) and by setEnabled; the continuous revision has    *)
(* no setEnabled and is driven by start() / stop(), its onAudioData call    *)
(* being the hand-off to the transport.  A sample is a record [n, v]: n     *)
(* numbers the samples in capture order, v is the amplitude in units of     *)
(* 0.5.  The frames are the down-sampled frames (downsampleTo24kHz returns  *)
(* its input when the context runs at 24 kHz); lengths are counted in       *)
(* blocks of 128 samples.                                                   *)
(***************************************************************************)
CaptureRevisions == {"filtered", "continuous"}

MaxSamples == 4
MaxPauses == 2

\* MIN_AUDIO_LENGTH = 256 samples = 2 blocks
MIN_AUDIO_LENGTH == 2

Levels == {-3, 1}

CaptureInit(rev) ==
    [rev |-> rev,
     stream |-> FALSE,
     processorNode |-> FALSE,
     active |-> FALSE,
     isEnabled |-> FALSE,
     audioBuffer |-> <<>>,
     controller |-> [isInitialized |-> FALSE, isConnected |-> FALSE],  \* the controller's own flags
     captured |-> <<>>,        \* the samples onaudioprocess received, in order
     payloads |-> <<>>,        \* the audio_data payloads handed to the transport
     discarded |-> {},         \* samples buffered at a pause or captured during one
     pauses |-> 0,             \* setEnabled(false) calls so far
     flushed |-> FALSE,        \* the last stop() sent a remainder
     lastOp |-> "new"]

\* _float32ToPCM16, one sample: clamp to [-1, 1], scale, truncate
Float32ToPCM16(v) ==
    LET s == Max(-2, Min(2, v))
    IN  IF s < 0 THEN -((-s * 32768) \div 2) ELSE (s * 32767) \div 2

PcmSeq(q) == [i \in DOMAIN q |-> [n |-> q[i].n, v |-> Float32ToPCM16(q[i].v)]]

\* obj.name read as a condition: a property the object does not have is
\* undefined, which is falsy
Truthy(obj, name) == name \in DOMAIN obj /\ obj[name]

\* controller.audioCapture.onAudioData as set by setupAudioCapture, followed
\* by wsClient.sendAudioData
OnAudioData(a, pcm16) ==
    IF a.rev = "continuous" \/ (Truthy(a.controller, "isConnected") /\ a.isEnabled)
    THEN [a EXCEPT !.payloads = Append(@, pcm16)]
    ELSE a

\* the same with the buffer sent again by the next call
SendBufferedAudioKeepsBuffer(a) ==
    IF Len(a.audioBuffer) = 0 THEN a
    ELSE OnAudioData(a, PcmSeq(a.audioBuffer))

\* _sendBufferedAudio()
SendBufferedAudio(a) ==
    IF Len(a.audioBuffer) = 0 THEN a
    ELSE OnAudioData([a EXCEPT !.audioBuffer = <<>>], PcmSeq(a.audioBuffer))

SampleIds(q) == {q[i].n : i \in DOMAIN q}

\* the same without clearing the buffer
SetEnabledKeepsBuffer(a, enabled) ==
    [a EXCEPT !.isEnabled = enabled,
              !.discarded = IF enabled THEN @ ELSE @ \cup SampleIds(a.audioBuffer)]

\* setEnabled(enabled)
SetEnabled(a, enabled) ==
    [a EXCEPT !.isEnabled = enabled,
              !.audioBuffer = IF enabled THEN @ ELSE <<>>,
              !.discarded = IF enabled THEN @ ELSE @ \cup SampleIds(a.audioBuffer)]

\* start()
AcStartBody(a) ==
    IF a.active \/ ~a.stream THEN a
    ELSE [a EXCEPT !.processorNode = TRUE, !.active = TRUE]

\* stop()
AcStopBody(a) ==
    IF ~a.active THEN [a EXCEPT !.flushed = FALSE]
    ELSE LET flush == a.rev = "filtered" /\ Len(a.audioBuffer) > 0
             a1 == IF flush THEN SendBufferedAudio(a) ELSE a
         IN  [a1 EXCEPT !.processorNode = FALSE, !.active = FALSE,
                        !.isEnabled = FALSE, !.flushed = flush]

\* processorNode.onaudioprocess; elapsed: now - lastSentTime > sendInterval
OnAudioProcess(a, frame, elapsed) ==
    LET a0 == [a EXCEPT !.captured = @ \o frame]
    IN  IF a.rev = "continuous" THEN OnAudioData(a0, PcmSeq(frame))
        ELSE IF ~a.isEnabled THEN [a0 EXCEPT !.discarded = @ \cup SampleIds(frame)]
        ELSE LET a1 == [a0 EXCEPT !.audioBuffer = @ \o frame]
             IN  IF elapsed /\ Len(a1.audioBuffer) >= MIN_AUDIO_LENGTH
                 THEN SendBufferedAudio(a1)
                 ELSE a1

\* RealtimeController.connect() of part_009, the transport connecting
AcConnectBody(a) ==
    [SetEnabled(AcStartBody([a EXCEPT !.stream = TRUE]), TRUE) EXCEPT !.controller.isConnected = TRUE]

\* RealtimeController.disconnect() of part_009
AcDisconnectBody(a) ==
    [AcStopBody(a) EXCEPT !.controller.isConnected = FALSE]

\* the frames the microphone can deliver next
Frames(a) ==
    {f \in UNION {[1..len -> Levels] : len \in 1..2} : Len(a.captured) + Len(f) <= MaxSamples}

Numbered(a, f) == [i \in DOMAIN f |-> [n |-> Len(a.captured) + i, v |-> f[i]]]

AcConnect ==
    /\ ac.rev = "filtered"
    /\ ac' = AcConnectBody([ac EXCEPT !.lastOp = "connect"])
    /\ UNCHANGED otherThanAc

AcDisconnect ==
    /\ ac.rev = "filtered"
    /\ ac' = AcDisconnectBody([ac EXCEPT !.lastOp = "disconnect"])
    /\ UNCHANGED otherThanAc

AcSetEnabled(enabled) ==
    /\ ac.rev = "filtered"
    /\ ~enabled => ac.pauses < MaxPauses
    /\ ac' = SetEnabled([ac EXCEPT !.lastOp = IF enabled THEN "resume" ELSE "pause",
                                   !.pauses = IF enabled THEN @ ELSE @ + 1], enabled)
    /\ UNCHANGED otherThanAc

AcStart ==
    /\ ac.rev = "continuous"
    /\ ac' = AcStartBody([ac EXCEPT !.lastOp = "start", !.stream = TRUE])
    /\ UNCHANGED otherThanAc

AcStop ==
    /\ ac.rev = "continuous"
    /\ ac' = AcStopBody([ac EXCEPT !.lastOp = "stop"])
    /\ UNCHANGED otherThanAc

AudioProcess(f, elapsed) ==
    /\ ac.processorNode
    /\ ac' = OnAudioProcess([ac EXCEPT !.lastOp = "audioprocess"], Numbered(ac, f), elapsed)
    /\ UNCHANGED otherThanAc

InitCapture ==
    /\ sm = SmInit("plain")
    /\ ws = WsIdle
    /\ rc = RcIdle
    /\ ap = ApIdle
    /\ vad = VadIdle
    /\ \E rev \in CaptureRevisions : ac = CaptureInit(rev)

NextCapture ==
    \/ AcConnect
    \/ AcDisconnect
    \/ \E enabled \in BOOLEAN : AcSetEnabled(enabled)
    \/ AcStart
    \/ AcStop
    \/ \E f \in Frames(ac), elapsed \in BOOLEAN : AudioProcess(f, elapsed)

SpecCapture == InitCapture /\ [][NextCapture]_vars

(***************************************************************************)
(* Properties of the uplink                                                *)
(***************************************************************************)
RECURSIVE Flatten(_)
Flatten(qq) == IF qq = <<>> THEN <<>> ELSE Head(qq) \o Flatten(Tail(qq))

\* the samples handed to the transport so far, concatenated
Streamed == Flatten(ac.payloads)

Kept == SelectSeq(ac.captured, LAMBDA s : s.n \notin ac.discarded)

\* what is sent is what was captured outside the pauses
PausedSamplesNeverSent ==
    ac.rev = "filtered" => Streamed \o PcmSeq(ac.audioBuffer) = PcmSeq(Kept)

\* setEnabled(false) leaves the audio graph alone, and no payload is handed
\* over by any step that starts with the sending disabled
PauseKeepsGraph ==
    /\ (ac.rev = "filtered" /\ ac'.lastOp = "pause" /\ ac'.pauses # ac.pauses) =>
          /\ ac'.active = ac.active
          /\ ac'.processorNode = ac.processorNode
          /\ ac'.payloads = ac.payloads
          /\ ~ac'.isEnabled
    /\ (ac.rev = "filtered" /\ ~ac.isEnabled) => ac'.payloads = ac.payloads

\* C24: setEnabled(false) pauses the sending without tearing down the audio
\* graph: active and the processor node are unchanged, no onAudioData call
\* occurs until setEnabled(true), the samples buffered before the pause are
\* never sent later, and after setEnabled(true) the samples captured from
\* then on are sent.
C24_PauseResume ==
    /\ []PausedSamplesNeverSent
    /\ [][PauseKeepsGraph]_vars

\* samples were buffered at a pause, more were captured during it, and after
\* setEnabled(true) a payload has been sent
C24_Witness ==
    /\ ac.rev = "filtered"
    /\ ac.pauses > 0
    /\ ac.active
    /\ ac.isEnabled
    /\ Cardinality(ac.discarded) >= 2
    /\ ac.payloads # <<>>
    /\ \E i \in DOMAIN ac.captured : ac.captured[i].n \notin ac.discarded

(***************************************************************************)
(* The wired session: RealtimeSetup (part_009:4-120) connects the          *)
(* components of a controller.  The state machine is sm (plain revision),   *)
(* the player is ap (queue-based revision, initialized), and rc keeps what  *)
(* the controller triggers for its subscribers.  Every action is one        *)
(* handler registered by RealtimeSetup, run to its end together with the    *)
(* callbacks it reaches.                                                     *)
(***************************************************************************)
\* setupStateMachine(controller) on a new state machine
WiredMachine ==
    [SmInit("plain") EXCEPT
        !.onStateChange = TRUE,
        !.stateHandlers = [h \in HandlerNames |->
                              h \in {"onEnterListening", "onEnterProcessing",
                                     "onEnterSpeaking", "onEnterWaiting"}]]

WiredController ==
    [rev |-> "wired",
     stateChanges |-> <<>>,   \* the payloads of the 'state_change' events, in order
     triggered |-> <<>>,      \* the events the last handler triggered, in order
     lastOp |-> "new"]

\* what the callbacks set by setupStateMachine trigger for the calls the
\* state machine made: onEnterWaiting triggers 'ready', onStateChange
\* triggers 'state_change' with the transition it was given
RECURSIVE Rebroadcast(_, _)
Rebroadcast(c, calls) ==
    IF calls = <<>> THEN c
    ELSE LET call == Head(calls)
             c1 == IF call.k = "enter" /\ call.h = "onEnterWaiting"
                   THEN [c EXCEPT !.triggered = Append(@, "ready")]
                   ELSE IF call.k = "notify"
                   THEN [c EXCEPT !.triggered = Append(@, "state_change"),
                                  !.stateChanges = Append(@, call.tr)]
                   ELSE c
         IN  Rebroadcast(c1, Tail(calls))

\* setupAudioPlayer: onPlaybackStart calls onResponseStarted, onPlaybackEnd
\* calls onSpeechCompleted
RECURSIVE PlaybackCallbacks(_, _)
PlaybackCallbacks(m, callbacks) ==
    IF callbacks = <<>> THEN m
    ELSE PlaybackCallbacks(IF Head(callbacks) = "start" THEN onResponseStartedBody(m)
                           ELSE onSpeechCompletedBody(m),
                           Tail(callbacks))

\* the callbacks the player made between a and a1
NewCallbacks(a, a1) == SubSeq(a1.callbacks, Len(a.callbacks) + 1, Len(a1.callbacks))

WiredBegin(op) == [rc EXCEPT !.lastOp = op, !.triggered = <<>>]

\* wsClient 'session_started'
WiredSessionStarted ==
    /\ Room
    /\ Forced(sm) < MaxForced
    /\ sm' = forceStateBody(Begin(sm, "forceState", "WAITING"), "WAITING")
    /\ rc' = Rebroadcast([WiredBegin("session_started") EXCEPT !.triggered = <<"session_started">>],
                         sm'.calls)
    /\ UNCHANGED <<ws, ap, ac, vad>>

\* wsClient 'speech_started'
WiredSpeechStarted ==
    /\ Room
    /\ sm' = onSpeechDetectedBody(Begin(sm, "onSpeechDetected", ""))
    /\ rc' = [Rebroadcast(WiredBegin("speech_started"), sm'.calls)
                 EXCEPT !.triggered = Append(@, "speech_started")]
    /\ UNCHANGED <<ws, ap, ac, vad>>

\* wsClient 'speech_stopped'
WiredSpeechStopped ==
    /\ Room
    /\ sm' = onSpeechEndedBody(Begin(sm, "onSpeechEnded", ""))
    /\ rc' = [Rebroadcast(WiredBegin("speech_stopped"), sm'.calls)
                 EXCEPT !.triggered = Append(@, "speech_stopped")]
    /\ UNCHANGED <<ws, ap, ac, vad>>

\* wsClient 'audio_chunk'
WiredAudioChunk ==
    /\ Room
    /\ ap.arrived < MaxChunks
    /\ ap' = PlayAudioDataBody([ap EXCEPT !.lastOp = "playAudioData"])
    /\ sm' = PlaybackCallbacks(Begin(sm, "playback", ""), NewCallbacks(ap, ap'))
    /\ rc' = Rebroadcast(WiredBegin("audio_chunk"), sm'.calls)
    /\ UNCHANGED <<ws, ac, vad>>

\* wsClient 'interrupted'
WiredInterrupted ==
    /\ ap.stops < MaxStops
    /\ ap' = QueueStopBody([ap EXCEPT !.lastOp = "stop",
                                      !.stops = @ + 1,
                                      !.stoppedUpTo = ap.arrived,
                                      !.sourcesAtStop = Len(ap.sources),
                                      !.wasActive = QueueIsActive(ap)])
    /\ rc' = [WiredBegin("interrupted") EXCEPT !.triggered = <<"interrupted">>]
    /\ UNCHANGED <<sm, ws, ac, vad>>

\* wsClient 'error'
WiredError ==
    /\ Room
    /\ sm' = onProcessingErrorBody(Begin(sm, "onProcessingError", ""))
    /\ rc' = [Rebroadcast(WiredBegin("error"), sm'.calls)
                 EXCEPT !.triggered = Append(@, "error")]
    /\ UNCHANGED <<ws, ap, ac, vad>>

\* the 'ended' event of source s
WiredSourceEnded(s) ==
    /\ ap.sources[s].status \in {"playing", "stopped"}
    /\ ap' = OnEnded([ap EXCEPT !.lastOp = "ended"], s)
    /\ rc' = WiredBegin("ended")
    /\ UNCHANGED <<sm, ws, ac, vad>>

\* the 5 ms timer of loop l: the loop plays the next buffer or finishes
WiredWaitTimerFires(l) ==
    /\ Room
    /\ ap.loops[l].pc = "wait"
    /\ ap' = ProcessQueueLoop([ap EXCEPT !.lastOp = "timer"], l)
    /\ sm' = PlaybackCallbacks(Begin(sm, "playback", ""), NewCallbacks(ap, ap'))
    /\ rc' = Rebroadcast(WiredBegin("timer"), sm'.calls)
    /\ UNCHANGED <<ws, ac, vad>>

InitWired ==
    /\ sm = WiredMachine
    /\ ws = WsIdle
    /\ rc = WiredController
    /\ ap = QueueInit(TRUE)
    /\ ac = AcIdle
    /\ vad = VadIdle

NextWired ==
    \/ WiredSessionStarted
    \/ WiredSpeechStarted
    \/ WiredSpeechStopped
    \/ WiredAudioChunk
    \/ WiredInterrupted
    \/ WiredError
    \/ \E s \in SourceIds(ap) : WiredSourceEnded(s)
    \/ \E l \in LoopIds(ap) : WiredWaitTimerFires(l)

SpecWired == InitWired /\ [][NextWired]_vars

(***************************************************************************)
(* Properties of the wired session                                         *)
(***************************************************************************)
Wired == rc.rev = "wired"

\* the step moves the state machine along one edge and the controller
\* triggers exactly one 'state_change' for it, with the same from, to, event
Moves(from, to, event) ==
    /\ sm.currentState = from
    /\ sm'.currentState = to
    /\ rc'.stateChanges = Append(rc.stateChanges, <<from, to, event>>)
    /\ Len(SelectSeq(rc'.triggered, LAMBDA e : e = "state_change")) = 1

\* the player runs out of audio by itself
Drained == rc'.lastOp = "timer" /\ ap.isPlaying /\ ~QueueIsActive(ap')

\* the four steps of a turn
TurnFromWaiting ==
    /\ (rc'.lastOp = "speech_started" /\ sm.currentState = "WAITING")
          => Moves("WAITING", "LISTENING", "speechDetected")
    /\ (rc'.lastOp = "speech_stopped" /\ sm.currentState = "LISTENING")
          => Moves("LISTENING", "PROCESSING", "speechEnded")
    /\ (rc'.lastOp = "audio_chunk" /\ sm.currentState = "PROCESSING")
          => Moves("PROCESSING", "SPEAKING", "responseStarted")
    /\ (Drained /\ sm.currentState = "SPEAKING")
          => Moves("SPEAKING", "WAITING", "speechCompleted")

\* every change of state is re-broadcast once, unchanged and in order
RebroadcastUnchanged ==
    Wired => rc.stateChanges =
                 [i \in DOMAIN sm.stateHistory |->
                     <<sm.stateHistory[i].from, sm.stateHistory[i].to, sm.stateHistory[i].event>>]

\* C25: in the wired session, starting from WAITING, the events
\* speech_started, speech_stopped, first audio_chunk of the response and
\* playback drained move the state machine to LISTENING, PROCESSING, SPEAKING
\* and back to WAITING, and each of the four changes is re-broadcast to the
\* controller's subscribers as exactly one 'state_change' event with the same
\* from, to and event, in that order.
C25_TurnCycleRebroadcast ==
    /\ []RebroadcastUnchanged
    /\ [][Wired => TurnFromWaiting]_vars

\* the same turn when the player holds no earlier audio as the response's
\* first chunk arrives
TurnWithIdlePlayer ==
    [][Wired =>
          /\ (rc'.lastOp = "speech_started" /\ sm.currentState = "WAITING")
                => Moves("WAITING", "LISTENING", "speechDetected")
          /\ (rc'.lastOp = "speech_stopped" /\ sm.currentState = "LISTENING")
                => Moves("LISTENING", "PROCESSING", "speechEnded")
          /\ (rc'.lastOp = "audio_chunk" /\ sm.currentState = "PROCESSING" /\ ~ap.isPlaying)
                => Moves("PROCESSING", "SPEAKING", "responseStarted")
          /\ (Drained /\ sm.currentState = "SPEAKING")
                => Moves("SPEAKING", "WAITING", "speechCompleted")]_vars

\* speech_started while SPEAKING with assistant audio playing
BargeIn ==
    /\ rc'.lastOp = "speech_started"
    /\ sm.currentState = "SPEAKING"
    /\ QueueIsActive(ap)

\* C26: barge-in in the wired session: when speech_started arrives while the
\* state machine is SPEAKING and assistant audio is playing, the state
\* becomes LISTENING and the playback is cancelled as part of handling that
\* event: the player is stopped and its queue is empty.
C26_BargeInCancelsPlayback ==
    [][(Wired /\ BargeIn) =>
          /\ sm'.currentState = "LISTENING"
          /\ ~QueueIsActive(ap')
          /\ \A s \in SourceIds(ap') : ap'.sources[s].status # "playing"]_vars

\* the state half
BargeInMovesToListening ==
    [][(Wired /\ BargeIn) => Moves("SPEAKING", "LISTENING", "userInterrupt")]_vars

\* the player is stopped when 'interrupted' arrives
InterruptedStopsPlayer ==
    [][(Wired /\ rc'.lastOp = "interrupted") => ~QueueIsActive(ap')]_vars

(***************************************************************************)
(* VADProcessor, conservative revision (vad_processor.js, second class).   *)
(* A step is one call of processAudio with a buffer that completes        *)
(* framesPerCall frames of one energy.  Energies are in thousandths, times in ticks of    *)
(* 500 ms.  energyHistory is kept as its sorted content, the       *)
(* number of entries of every energy: the code reads the history only       *)
(* through a sorted copy, and the shift at maxEnergyHistory entries lies     *)
(* beyond MaxFrames.                                                         *)
(***************************************************************************)
MaxCalls == 9

MaxElapsed == 3

\* Date.now() at construction, far beyond minEventInterval
Epoch == 4

MinSpeechFrames == 15

MinSilenceFrames == 15

MinEventInterval == 2

MaxEnergyHistory == 100

\* RMS energy of a frame: silence and 0.1
Energies == {0, 100}

\* frames completed by one call of processAudio, by the size of the
\* capture's buffers
FramesPerCall == {5, 7}

\* options.silenceDuration: 500 ms and the default of 1500 ms
SilenceDurations == {1, 3}

VadInit(silenceDuration, framesPerCall) ==
    [rev |-> "conservative",
     vadMode |-> 1,
     speechThreshold |-> 80,
     silenceDuration |-> silenceDuration,
     isSpeaking |-> FALSE,
     silenceStart |-> 0,           \* 0 is null
     speechFrames |-> 0,
     silenceFrames |-> 0,
     energyHistory |-> [e \in Energies |-> 0],
     noiseFloor |-> 10,
     lastSpeechEvent |-> 0,
     lastSilenceEvent |-> 0,
     minEventInterval |-> MinEventInterval,
     onSpeechStart |-> FALSE,      \* null: the constructor reads no callback from options
     onSpeechEnd |-> FALSE,
     now |-> Epoch,                \* the wall clock
     framesPerCall |-> framesPerCall,
     calls |-> 0,                  \* calls of processAudio and reset
     resets |-> 0,
     trail |-> [isSpeech |-> FALSE, run |-> 0, since |-> 0],
     events |-> <<>>,              \* callbacks made: <<type, timestamp, resets>>
     fired |-> "none",             \* the callback made by the last call
     firedAt |-> [trail |-> [isSpeech |-> FALSE, run |-> 0, since |-> 0], frame |-> 0],
     debounced |-> "none",
     lastOp |-> "new"]

VadBegin(v, op, now) ==
    [v EXCEPT !.lastOp = op, !.now = now, !.fired = "none", !.debounced = "none"]

HistoryLength(h) == h[0] + h[100]

\* [...energyHistory].sort((a, b) => a - b)[index]
Sorted(h, index) == IF index < h[0] THEN 0 ELSE 100

UpdateEnergyHistory(v, energy) ==
    LET h == [v.energyHistory EXCEPT ![energy] = @ + 1]
    IN  [v EXCEPT !.energyHistory = h,
                  !.noiseFloor = IF HistoryLength(h) >= 20
                                 THEN Max(5, Sorted(h, HistoryLength(h) \div 5))
                                 ELSE @]

\* energy > max(speechThreshold, noiseFloor * 4.0) * (1 + vadMode * 0.1)
DetectSpeech(v, energy) ==
    energy * 10 > Max(v.speechThreshold, v.noiseFloor * 4) * (10 + v.vadMode)

\* the same without the debounce
HandleSpeechStartUndebounced(v, now) ==
    [v EXCEPT !.isSpeaking = TRUE,
              !.lastSpeechEvent = now,
              !.events = IF v.onSpeechStart THEN Append(@, <<"start", now, v.resets>>) ELSE @,
              !.fired = IF v.onSpeechStart THEN "start" ELSE @]

HandleSpeechStart(v, now) ==
    IF now - v.lastSpeechEvent < v.minEventInterval
    THEN [v EXCEPT !.debounced = "start"]
    ELSE [v EXCEPT !.isSpeaking = TRUE,
                   !.lastSpeechEvent = now,
                   !.events = IF v.onSpeechStart THEN Append(@, <<"start", now, v.resets>>) ELSE @,
                   !.fired = IF v.onSpeechStart THEN "start" ELSE @]

\* the same with isSpeaking left set
HandleSpeechEndKeepsSpeaking(v, now) ==
    IF now - v.lastSilenceEvent < v.minEventInterval
    THEN [v EXCEPT !.debounced = "end"]
    ELSE [v EXCEPT !.speechFrames = 0,
                   !.silenceFrames = 0,
                   !.silenceStart = 0,
                   !.lastSilenceEvent = now,
                   !.events = IF v.onSpeechEnd THEN Append(@, <<"end", now, v.resets>>) ELSE @,
                   !.fired = IF v.onSpeechEnd THEN "end" ELSE @]

HandleSpeechEnd(v, now) ==
    IF now - v.lastSilenceEvent < v.minEventInterval
    THEN [v EXCEPT !.debounced = "end"]
    ELSE [v EXCEPT !.isSpeaking = FALSE,
                   !.speechFrames = 0,
                   !.silenceFrames = 0,
                   !.silenceStart = 0,
                   !.lastSilenceEvent = now,
                   !.events = IF v.onSpeechEnd THEN Append(@, <<"end", now, v.resets>>) ELSE @,
                   !.fired = IF v.onSpeechEnd THEN "end" ELSE @]

\* the same with the silence count and clock left running
OnSpeechFrameKeepsSilence(v, now) ==
    LET v1 == [v EXCEPT !.speechFrames = @ + 1]
    IN  IF ~v1.isSpeaking /\ v1.speechFrames >= MinSpeechFrames
        THEN HandleSpeechStart(v1, now)
        ELSE v1

\* _processFrame, the branch of a speech frame
OnSpeechFrame(v, now) ==
    LET v1 == [v EXCEPT !.speechFrames = @ + 1, !.silenceFrames = 0, !.silenceStart = 0]
    IN  IF ~v1.isSpeaking /\ v1.speechFrames >= MinSpeechFrames
        THEN HandleSpeechStart(v1, now)
        ELSE v1

\* _processFrame, the branch of a non-speech frame
OnSilenceFrame(v, now) ==
    LET v1 == [v EXCEPT !.silenceFrames = @ + 1]
        v2 == [v1 EXCEPT !.silenceStart = IF @ = 0 THEN now ELSE @]
    IN  IF v1.isSpeaking
        THEN IF now - v2.silenceStart >= v2.silenceDuration /\ v2.silenceFrames >= MinSilenceFrames
             THEN HandleSpeechEnd(v2, now)
             ELSE v2
        ELSE [v1 EXCEPT !.speechFrames = Max(0, @ - 1)]

\* isSpeech of _processFrame
IsSpeech(v, energy) == energy > 15 /\ DetectSpeech(UpdateEnergyHistory(v, energy), energy)

ProcessFrame(v, energy, now) ==
    IF IsSpeech(v, energy)
    THEN OnSpeechFrame(UpdateEnergyHistory(v, energy), now)
    ELSE OnSilenceFrame(UpdateEnergyHistory(v, energy), now)

VadResetBody(v) ==
    [v EXCEPT !.isSpeaking = FALSE,
              !.silenceStart = 0,
              !.speechFrames = 0,
              !.silenceFrames = 0,
              !.energyHistory = [e \in Energies |-> 0],
              !.noiseFloor = 10,
              !.lastSpeechEvent = 0,
              !.lastSilenceEvent = 0]

\* the frames classified alike that end the input: their number (counted
\* up to the larger of the two minima) and the time of the first of them
Trail(t, isSpeech, now) ==
    IF t.run > 0 /\ t.isSpeech = isSpeech
    THEN [t EXCEPT !.run = Min(@ + 1, Max(MinSpeechFrames, MinSilenceFrames))]
    ELSE [isSpeech |-> isSpeech, run |-> 1, since |-> now]

\* one frame of processAudio; firedAt keeps the trail and the number of
\* the frame at which a callback is made
FrameStep(v, energy, now) ==
    LET t == Trail(v.trail, IsSpeech(v, energy), now)
        v1 == ProcessFrame(v, energy, now)
    IN  [v1 EXCEPT !.trail = t,
                   !.firedAt = IF v1.events # v.events
                               THEN [trail |-> t, frame |-> HistoryLength(v1.energyHistory)]
                               ELSE @]

RECURSIVE ProcessAudio(_, _, _, _)
ProcessAudio(v, energy, count, now) ==
    IF count = 0
    THEN v
    ELSE ProcessAudio(FrameStep(v, energy, now), energy, count - 1, now)

VadStep(energy, elapsed) ==
    /\ vad.rev = "conservative"
    /\ vad.calls < MaxCalls
    /\ HistoryLength(vad.energyHistory) + vad.framesPerCall <= MaxEnergyHistory
    /\ vad.now + elapsed <= Epoch + MaxElapsed
    /\ LET now == vad.now + elapsed
           v1 == ProcessAudio(VadBegin(vad, "audio", now), energy, vad.framesPerCall, now)
       IN  vad' = [v1 EXCEPT !.calls = @ + 1]

VadProcessAudio(energy, elapsed) ==
    /\ VadStep(energy, elapsed)
    /\ UNCHANGED otherThanVad

VadReset ==
    /\ vad.rev = "conservative"
    /\ vad.calls < MaxCalls
    /\ vad' = [VadResetBody(VadBegin(vad, "reset", vad.now)) EXCEPT
                   !.calls = @ + 1,
                   !.resets = @ + 1,
                   !.trail = [isSpeech |-> FALSE, run |-> 0, since |-> 0]]
    /\ UNCHANGED otherThanVad

InitVad ==
    /\ sm = SmInit("plain")
    /\ ws = WsIdle
    /\ rc = RcIdle
    /\ ap = ApIdle
    /\ ac = AcIdle
    /\ \E d \in SilenceDurations, n \in FramesPerCall :
          \* a detector with both callback properties assigned
          vad = [VadInit(d, n) EXCEPT !.onSpeechStart = TRUE, !.onSpeechEnd = TRUE]

NextVad ==
    \/ \E energy \in Energies, elapsed \in 0..1 : VadProcessAudio(energy, elapsed)
    \/ VadReset

SpecVad == InitVad /\ [][NextVad]_vars

Detector == vad.rev = "conservative"

FiredAtFrame(type) == Detector /\ vad.lastOp = "audio" /\ vad.fired = type

\* C28: from a fresh or reset detector, onSpeechStart fires at a frame only
\* if that frame and the 14 frames immediately before it were all
\* classified as speech, and it fires exactly once, at the first such frame
\* (15 frames of energy 0.1: at the 15th, not earlier, not again).
C28_StartAfterFifteenConsecutive ==
    FiredAtFrame("start") =>
        vad.firedAt.trail.isSpeech /\ vad.firedAt.trail.run >= MinSpeechFrames

\* the scenario: nothing but frames of energy 0.1 since construction or
\* reset, with less than 20 frames of history
OnlyLoudFrames ==
    /\ Detector
    /\ vad.energyHistory[0] = 0
    /\ vad.energyHistory[100] < 20

StartsSince(v) == {i \in DOMAIN v.events : v.events[i][1] = "start" /\ v.events[i][3] = v.resets}

FifteenLoudFramesFireOnce ==
    OnlyLoudFrames =>
        /\ Cardinality(StartsSince(vad)) = (IF vad.energyHistory[100] >= MinSpeechFrames THEN 1 ELSE 0)
        /\ \A i \in StartsSince(vad) : vad.firedAt.frame = MinSpeechFrames

\* onSpeechStart never fires within the first 14 frames
StartNeedsFifteenCounted ==
    FiredAtFrame("start") => vad.firedAt.frame >= MinSpeechFrames

\* a start after an interrupted run of speech frames
StartAfterBrokenRun ==
    FiredAtFrame("start") /\ vad.firedAt.trail.run < MinSpeechFrames

\* C29: onSpeechEnd fires at a frame only if at least 15 consecutive
\* non-speech frames have been seen and the wall-clock time since the first
\* of them is at least silenceDuration; a speech frame in between restarts
\* both the count and the clock.
C29_EndAfterSilence ==
    FiredAtFrame("end") =>
        /\ ~vad.firedAt.trail.isSpeech
        /\ vad.firedAt.trail.run >= MinSilenceFrames
        /\ vad.now - vad.firedAt.trail.since >= vad.silenceDuration

\* onSpeechEnd fired with the default silenceDuration
C29_Witness ==
    /\ FiredAtFrame("end")
    /\ vad.silenceDuration = 3
    /\ vad.firedAt.trail.run >= MinSilenceFrames
    /\ vad.now - vad.firedAt.trail.since >= vad.silenceDuration

SameType(v, i, j) == i < j /\ v.events[i][1] = v.events[j][1]

ClientVadController ==
    [rev |-> "vad", speechStarts |-> 0, speechEnds |-> 0, commits |-> 0, lastOp |-> "new"]

\* the options AudioCapture.initialize() passes to new VADProcessor(options)
CaptureVadOptions == [sampleRate |-> 24000, onSpeechStart |-> TRUE, onSpeechEnd |-> TRUE]

\* new VADProcessor(options): sampleRate is the only one of these options
\* the constructor reads
NewVADProcessor(options, silenceDuration, framesPerCall) == VadInit(silenceDuration, framesPerCall)

\* audioCapture.onSpeechStart and onSpeechEnd as the controller sets them,
\* called by the option callbacks for the callback the detector made
CaptureCallbackMachine(m, fired) ==
    CASE fired = "start" -> onSpeechDetectedBody(Begin(m, "onSpeechDetected", ""))
      [] fired = "end" -> onSpeechEndedBody(Begin(m, "onSpeechEnded", ""))
      [] OTHER -> m

CaptureCallbackController(c, fired) ==
    CASE fired = "start" -> [c EXCEPT !.speechStarts = @ + 1]
      [] fired = "end" -> [c EXCEPT !.speechEnds = @ + 1, !.commits = @ + 1]
      [] OTHER -> c

\* onaudioprocess: vadProcessor.processAudio(inputData)
ClientVadAudioProcess(energy, elapsed) ==
    /\ rc.rev = "vad"
    /\ Room
    /\ VadStep(energy, elapsed)
    /\ sm' = CaptureCallbackMachine(sm, vad'.fired)
    /\ rc' = CaptureCallbackController([rc EXCEPT !.lastOp = "audioprocess"], vad'.fired)
    /\ UNCHANGED <<ws, ap, ac>>

InitClientVad ==
    /\ sm = SmInit("plain")
    /\ ws = WsIdle
    /\ rc = ClientVadController
    /\ ap = ApIdle
    /\ ac = AcIdle
    /\ \E d \in SilenceDurations, n \in FramesPerCall :
          vad = NewVADProcessor(CaptureVadOptions, d, n)

NextClientVad == \E energy \in Energies, elapsed \in 0..1 : ClientVadAudioProcess(energy, elapsed)

SpecClientVad == InitClientVad /\ [][NextClientVad]_vars

ClientVad == rc.rev = "vad"

\* C32: when the VADProcessor created by AudioCapture.initialize() detects a
\* speech start or a speech end, AudioCapture's onSpeechStart / onSpeechEnd
\* is invoked, so the state machine moves WAITING -> LISTENING on the start
\* and LISTENING -> PROCESSING, with commit_audio sent, on the end.
C32_DetectionDrivesMachine ==
    [][(ClientVad /\ vad.isSpeaking # vad'.isSpeaking) =>
          IF vad'.isSpeaking
          THEN /\ rc'.speechStarts = rc.speechStarts + 1
               /\ sm.currentState = "WAITING" => sm'.currentState = "LISTENING"
          ELSE /\ rc'.speechEnds = rc.speechEnds + 1
               /\ rc'.commits = rc.commits + 1
               /\ sm.currentState = "LISTENING" => sm'.currentState = "PROCESSING"]_vars

\* the detector of the session makes no callback at all
SessionDetectorIsMute ==
    ClientVad =>
        /\ ~vad.onSpeechStart /\ ~vad.onSpeechEnd
        /\ rc.speechStarts = 0 /\ rc.speechEnds = 0 /\ rc.commits = 0
        /\ sm.currentState = "WAITING"

\* the detector has detected a start and an end of speech
DetectedStartAndEnd == ClientVad /\ vad.lastSpeechEvent # 0 /\ vad.lastSilenceEvent # 0

InSeq(x, seq) == \E i \in DOMAIN seq : seq[i] = x

\* C33: in the wired session, whenever the player begins a playback run
\* (onPlaybackStart) the state machine enters SPEAKING, whatever state it was
\* in when the first chunk arrived, and it returns to WAITING when the run
\* ends; the machine is never in PROCESSING or WAITING while assistant audio
\* plays.
C33_PlaybackRunIsSpeaking ==
    /\ [][Wired =>
            /\ InSeq("start", NewCallbacks(ap, ap')) => sm'.currentState = "SPEAKING"
            /\ InSeq("end", NewCallbacks(ap, ap')) => sm'.currentState = "WAITING"]_vars
    /\ [](Wired /\ PlayingSources(ap) # {} => sm.currentState \notin {"PROCESSING", "WAITING"})

\* a run that begins in PROCESSING puts the machine in SPEAKING, and a run
\* that ends in SPEAKING puts it in WAITING
RunFromProcessing ==
    [][Wired =>
          /\ (InSeq("start", NewCallbacks(ap, ap')) /\ sm.currentState = "PROCESSING")
                => sm'.currentState = "SPEAKING"
          /\ (InSeq("end", NewCallbacks(ap, ap')) /\ sm.currentState = "SPEAKING")
                => sm'.currentState = "WAITING"]_vars

\* a run that begins outside PROCESSING leaves the state as it is
RunOutsideProcessingIgnored ==
    [][(Wired /\ NewCallbacks(ap, ap') = <<"start">> /\ sm.currentState # "PROCESSING")
          => sm'.currentState = sm.currentState]_vars

(***************************************************************************)
(* Wiring of the singleton controller: every run of initialize() calls     *)
(* _setupComponents(), and RealtimeSetup.setupWebSocket registers its       *)
(* handlers with wsClient.on, which appends to the list of the event.       *)
(* rc.registrations is the length of each of these lists.                   *)
(***************************************************************************)
MaxInits == 3

ServerEvents == {"audio_chunk", "transcript", "speech_started"}

WiringInit ==
    [rev |-> "wiring",
     ready |-> FALSE,
     wsClient |-> FALSE,       \* the component exists
     registrations |-> 0,      \* wsClient.eventHandlers[event].length, every wired event
     inits |-> 0,              \* runs of initialize() so far
     calls |-> <<>>,           \* connect() calls: did the call find ready false, has it resumed
     event |-> "none",
     delivered |-> 0,          \* playAudioData / _trigger calls made for the last server event
     lastOp |-> "new"]

\* wsClient.on(event, handler) for every event of setupWebSocket
SetupWebSocket(c) == [c EXCEPT !.registrations = @ + 1]

\* initialize(), from the return of the awaited component initializers
WiringInitializeBody(c, micOk) ==
    LET c1 == [c EXCEPT !.wsClient = TRUE, !.inits = @ + 1]
    IN  IF micOk THEN [SetupWebSocket(c1) EXCEPT !.ready = TRUE] ELSE c1

\* wsClient._triggerHandlers(event): every registered handler runs
WiringTriggerHandlers(c, event) == [c EXCEPT !.event = event, !.delivered = c.registrations]

\* initialize() called directly (VoiceUI.initialize)
WiringInitialize(micOk) ==
    /\ rc.rev = "wiring"
    /\ rc.inits < MaxInits
    /\ rc' = WiringInitializeBody([rc EXCEPT !.lastOp = "initialize"], micOk)
    /\ UNCHANGED otherThanRc

\* VoiceUI.restart(): disconnect(), then VoiceUI.initialize()
WiringRestart(micOk) ==
    /\ rc.rev = "wiring"
    /\ rc.wsClient
    /\ rc.inits < MaxInits
    /\ rc' = WiringInitializeBody([rc EXCEPT !.lastOp = "restart"], micOk)
    /\ UNCHANGED otherThanRc

\* connect() up to `await this.initialize()`
WiringConnectCall ==
    /\ rc.rev = "wiring"
    /\ Len(rc.calls) < MaxConnects
    /\ rc' = [rc EXCEPT !.lastOp = "connect",
                        !.calls = Append(@, [initializes |-> ~rc.ready, resumed |-> FALSE])]
    /\ UNCHANGED otherThanRc

\* the initialize() of connect() call k runs to its end
WiringConnectResumes(k, micOk) ==
    /\ rc.rev = "wiring"
    /\ ~rc.calls[k].resumed
    /\ rc.calls[k].initializes => rc.inits < MaxInits
    /\ LET c == [rc EXCEPT !.lastOp = "resume", !.calls[k].resumed = TRUE]
       IN  rc' = IF rc.calls[k].initializes THEN WiringInitializeBody(c, micOk) ELSE c
    /\ UNCHANGED otherThanRc

WiringServerEvent(event) ==
    /\ rc.rev = "wiring"
    /\ rc.wsClient
    /\ rc' = WiringTriggerHandlers([rc EXCEPT !.lastOp = "event"], event)
    /\ UNCHANGED otherThanRc

InitWiring ==
    /\ sm = SmInit("plain")
    /\ ws = WsIdle
    /\ rc = WiringInit
    /\ ap = ApIdle
    /\ ac = AcIdle
    /\ vad = VadIdle

NextWiring ==
    \/ \E micOk \in BOOLEAN : WiringInitialize(micOk)
    \/ \E micOk \in BOOLEAN : WiringRestart(micOk)
    \/ WiringConnectCall
    \/ \E k \in DOMAIN rc.calls, micOk \in BOOLEAN : WiringConnectResumes(k, micOk)
    \/ \E event \in ServerEvents : WiringServerEvent(event)

SpecWiring == InitWiring /\ [][NextWiring]_vars

WiredUp == rc.rev = "wiring" /\ rc.lastOp = "event" /\ rc.registrations > 0

\* C34: however many times initialize() runs on the same controller
\* (repeated call, VoiceUI.restart(), two connect() calls racing before the
\* controller is ready), each inbound audio_chunk is passed to the player
\* exactly once and each server event is re-emitted exactly once.
C34_InitializeWiresOnce == WiredUp => rc.delivered = 1

\* every successful run of initialize() adds one delivery
DeliveredOncePerInitialize ==
    (rc.rev = "wiring" /\ rc.lastOp = "event") =>
        /\ rc.delivered = rc.registrations
        /\ rc.delivered <= rc.inits
        /\ rc.inits = 1 => rc.delivered <= 1

\* two connect() calls that both found the controller not ready
RacingConnectsWireTwice ==
    /\ WiredUp
    /\ rc.inits = 2
    /\ Len(rc.calls) = 2
    /\ \A k \in DOMAIN rc.calls : rc.calls[k].initializes /\ rc.calls[k].resumed
    /\ rc.delivered = 2

(***************************************************************************)
(* VADProcessor.updateParams between calls of processAudio                 *)
(***************************************************************************)
\* a parameter that is undefined in params
Undef == -1

\* params of updateParams: speechThreshold 0.15, silenceDuration 100 ms,
\* vadMode 3, each present or not, in three calls
NoParams == [speechThreshold |-> Undef, silenceDuration |-> Undef, vadMode |-> Undef]

ParamSets ==
    { [NoParams EXCEPT !.speechThreshold = 150],
      [NoParams EXCEPT !.silenceDuration = 0],
      [NoParams EXCEPT !.vadMode = 3, !.silenceDuration = 0] }

\* silenceDuration = Math.max(200, params.silenceDuration), in ticks
UpdateParams(v, params) ==
    [v EXCEPT !.speechThreshold = IF params.speechThreshold # Undef
                                  THEN Max(10, params.speechThreshold) ELSE @,
              !.silenceDuration = IF params.silenceDuration # Undef
                                  THEN Max(1, params.silenceDuration) ELSE @,
              !.vadMode = IF params.vadMode # Undef
                          THEN Max(0, Min(3, params.vadMode)) ELSE @]

VadUpdateParams(params) ==
    /\ vad.rev = "conservative"
    /\ vad.calls < MaxCalls
    /\ vad' = [UpdateParams(VadBegin(vad, "updateParams", vad.now), params) EXCEPT !.calls = @ + 1]
    /\ UNCHANGED otherThanVad

InitVadParams ==
    /\ sm = SmInit("plain")
    /\ ws = WsIdle
    /\ rc = RcIdle
    /\ ap = ApIdle
    /\ ac = AcIdle
    /\ \E n \in FramesPerCall :
          vad = [VadInit(3, n) EXCEPT !.onSpeechStart = TRUE, !.onSpeechEnd = TRUE]

NextVadParams ==
    \/ \E energy \in Energies, elapsed \in 0..1 : VadProcessAudio(energy, elapsed)
    \/ \E params \in ParamSets : VadUpdateParams(params)

SpecVadParams == InitVadParams /\ [][NextVadParams]_vars

\* C37: for any sequence of processAudio and updateParams calls,
\* onSpeechStart and onSpeechEnd fire strictly alternately, beginning with
\* onSpeechStart, and isSpeaking is true exactly between an onSpeechStart
\* and the next onSpeechEnd.
C37_StartEndAlternate ==
    Detector =>
        /\ \A i \in DOMAIN vad.events :
              vad.events[i][1] = (IF i % 2 = 1 THEN "start" ELSE "end")
        /\ vad.isSpeaking <=> (Len(vad.events) % 2 = 1)

\* a start, an end after a change of parameters, and a start again
C37_Witness ==
    /\ Detector
    /\ vad.silenceDuration = 1
    /\ Len(vad.events) = 3
    /\ vad.isSpeaking

(***************************************************************************)
(* The capture wired by RealtimeSetup under the singleton controller       *)
(***************************************************************************)
\* the flags the constructor of controller.js gives the controller
SingletonController == [connected |-> FALSE, ready |-> FALSE]

SingletonCaptureInit == [CaptureInit("filtered") EXCEPT !.controller = SingletonController]

\* connect() of controller.js, the transport and the server answering:
\* audioCapture.start(); audioCapture.setEnabled(true); this.connected = true
SingletonConnectBody(a) ==
    [SetEnabled(AcStartBody([a EXCEPT !.stream = TRUE]), TRUE) EXCEPT !.controller.connected = TRUE]

\* disconnect() of controller.js
SingletonDisconnectBody(a) ==
    [AcStopBody(a) EXCEPT !.controller.connected = FALSE]

SingletonCapture == "connected" \in DOMAIN ac.controller

SingletonAcConnect ==
    /\ SingletonCapture
    /\ ac' = SingletonConnectBody([ac EXCEPT !.lastOp = "connect"])
    /\ UNCHANGED otherThanAc

SingletonAcDisconnect ==
    /\ SingletonCapture
    /\ ac' = SingletonDisconnectBody([ac EXCEPT !.lastOp = "disconnect"])
    /\ UNCHANGED otherThanAc

InitSingletonCapture ==
    /\ sm = SmInit("plain")
    /\ ws = WsIdle
    /\ rc = RcIdle
    /\ ap = ApIdle
    /\ vad = VadIdle
    /\ ac = SingletonCaptureInit

NextSingletonCapture ==
    \/ SingletonAcConnect
    \/ SingletonAcDisconnect
    \/ \E enabled \in BOOLEAN : AcSetEnabled(enabled)
    \/ \E f \in Frames(ac), elapsed \in BOOLEAN : AudioProcess(f, elapsed)

SpecSingletonCapture == InitSingletonCapture /\ [][NextSingletonCapture]_vars

\* onaudioprocess handed a chunk to onAudioData in this step: with capture
\* enabled the frame is buffered, and only _sendBufferedAudio empties the buffer
ChunkDelivered ==
    /\ ac'.lastOp = "audioprocess"
    /\ ac' # ac
    /\ ac.isEnabled
    /\ ac'.audioBuffer = <<>>

\* C39: after connect() of the singleton controller has succeeded and capture
\* is enabled, every chunk AudioCapture hands to onAudioData is forwarded to
\* the transport as one audio_data event.
C39_ChunksForwarded ==
    [][(SingletonCapture /\ ac.controller.connected /\ ChunkDelivered)
          => Len(ac'.payloads) = Len(ac.payloads) + 1]_vars

\* under the singleton controller nothing is ever forwarded
SingletonNeverForwards ==
    SingletonCapture => ac.payloads = <<>>

\* connected, enabled, samples captured and dropped from the buffer unsent
ChunkDroppedWhileConnected ==
    /\ SingletonCapture
    /\ ac.controller.connected
    /\ ac.isEnabled
    /\ ac.lastOp = "audioprocess"
    /\ Len(ac.captured) >= MIN_AUDIO_LENGTH
    /\ ac.audioBuffer = <<>>
    /\ ac.payloads = <<>>
    /\ ac.discarded = {}

(***************************************************************************)
(* The state timeouts of the VoiceStateMachine, timeout revision           *)
(***************************************************************************)
\* the setTimeout callback of _setStateTimeout fires, however long the
\* history is
StateTimeoutElapses ==
    /\ sm.rev = "timeout"
    /\ sm.currentTimeout # "none"
    /\ sm' = Transition(Begin(sm, "stateTimeout", sm.currentTimeout), "timeout")
    /\ UNCHANGED otherThanSm

InitTimeouts ==
    /\ sm = SmInit("timeout")
    /\ ws = WsIdle
    /\ rc = RcIdle
    /\ ap = ApIdle
    /\ ac = AcIdle
    /\ vad = VadIdle

\* external events: calls of transition(), the trigger methods, forceState
\* and reset; the armed timer
NextTimeouts ==
    \/ \E e \in Events : TransitionCall(e)
    \/ TriggerMethods
    \/ \E s \in States : forceState(s)
    \/ reset
    \/ StateTimeoutElapses

SpecTimeouts == InitTimeouts /\ [][NextTimeouts]_vars

\* an armed timer fires; calls are up to the environment
SpecTimeoutsFair == SpecTimeouts /\ WF_vars(StateTimeoutElapses)

\* the same without forceState
NextTimeoutsUnforced ==
    \/ \E e \in Events : TransitionCall(e)
    \/ TriggerMethods
    \/ reset
    \/ StateTimeoutElapses

SpecTimeoutsUnforced ==
    InitTimeouts /\ [][NextTimeoutsUnforced]_vars /\ WF_vars(StateTimeoutElapses)

\* C40: after any transition into LISTENING, PROCESSING or SPEAKING the
\* machine returns to WAITING through its state timeouts once no further
\* external event arrives: no non-WAITING state is held forever.  (A call of
\* transition() that raises leaves a state that is none of the four; that
\* outcome is not counted here.)
C40_TimeoutsReturnToWaiting ==
    \A s \in timeouts :
        (sm.currentState = s) ~> (sm.currentState = "WAITING" \/ sm.currentState \notin States)

\* a state entered by transition() has its timer armed
EnteredStateIsTimed ==
    (sm.currentState \in timeouts /\ Forced(sm) = 0) => sm.currentTimeout = sm.currentState

\* forced into a state with a timeout and no timer armed
ForcedStateUntimed ==
    /\ sm.lastOp.op = "forceState"
    /\ sm.currentState \in timeouts
    /\ sm.currentTimeout = "none"

====
